---- MODULE Spec2Model ----
(***************************************************************************)
(* Annotation blocks of the Zotero reader plugin: the marker grammar, the  *)
(* section scanner (AnnotationParser), the validator, the block renderer   *)
(* and the AnnotationManager's add / update / remove operations with the   *)
(* promise chain (withLock) that serialises them.                          *)
(*                                                                         *)
(* A document is a sequence of lexemes.  A marker ("%% OZRP-ANNO-END %%",  *)
(* ...) is one lexeme, as the scanner's regular expressions match it as a  *)
(* unit; a line break, a blank, a '>' and an ordinary character are one    *)
(* lexeme each.  Offsets are the 0-based offsets of JavaScript strings,    *)
(* counted in lexemes; a range [start, end) excludes its end.              *)
(***************************************************************************)
EXTENDS Integers, Sequences, FiniteSets, TLC

(***************************************************************************)
(* Lexemes                                                                 *)
(***************************************************************************)
NL == [k |-> "nl"]
SP == [k |-> "sp"]
GT == [k |-> "gt"]
Chr(c) == [k |-> "ch", c |-> c]
Mark(m) == [k |-> "mark", m |-> m]
\* "%% OZRP-ANNO-BEGIN {json} %%": the BEGIN marker with its inline payload
Begin(raw) == [k |-> "begin", j |-> raw]
\* " ^id": the block anchor the template writes after the comment block
Anchor(id) == [k |-> "anchor", id |-> id]
\* the callout header line of the template, "[!ozrp-type-color] [source](link)"
Hdr == [k |-> "hdr"]

END == Mark("END")
Q_BEGIN == Mark("Q_BEGIN")
Q_END == Mark("Q_END")
C_BEGIN == Mark("C_BEGIN")
C_END == Mark("C_END")
BLOCKS_BEGIN == Mark("BLOCKS_BEGIN")
BLOCKS_END == Mark("BLOCKS_END")

\* \s of the regular expressions
IsWs(t) == t.k \in {"nl", "sp"}
\* [>\t ] of the regular expressions
IsPrefixChar(t) == t.k \in {"gt", "sp"}
IsBegin(t) == t.k = "begin"

(***************************************************************************)
(* JSON text.  A payload is a record; its JSON text is either the text of  *)
(* an object or text that JSON.parse rejects.                              *)
(***************************************************************************)
NoId == "undefined"
JSONstringify(obj) == [ok |-> TRUE, obj |-> obj]
\* "{...}" text that JSON.parse rejects
BadJson == [ok |-> FALSE]
\* payload text cut short: it opens with "{" and holds no "}"
UnclosedJson == [ok |-> FALSE, closed |-> FALSE]

\* tryParseJsonFrom: {json} or {error}
tryParseJsonFrom(jsonRaw) ==
    IF jsonRaw.ok THEN [json |-> jsonRaw.obj, error |-> ""]
    ELSE [json |-> [undefined |-> TRUE], error |-> "Invalid JSON"]

(***************************************************************************)
(* String helpers (JavaScript semantics)                                   *)
(***************************************************************************)
Min(a, b) == IF a < b THEN a ELSE b
Max(a, b) == IF a > b THEN a ELSE b

\* s.slice(a, b) for 0 <= a, b; and s.slice(a)
Slice(s, a, b) == SubSeq(s, Min(a, Len(s)) + 1, Min(b, Len(s)))
SliceFrom(s, a) == SubSeq(s, Min(a, Len(s)) + 1, Len(s))
\* s.slice(0, b) where b may be negative (counted from the end)
SliceTo(s, b) == IF b < 0 THEN SubSeq(s, 1, Max(Len(s) + b, 0)) ELSE Slice(s, 0, b)

SetMin(S) == CHOOSE x \in S : \A y \in S : x <= y
SetMax(S) == CHOOSE x \in S : \A y \in S : x >= y

\* s without its trailing run of lexemes of a kind in K
DropWhileEnd(s, K) ==
    LET keep == {i \in 1..Len(s) : s[i].k \notin K}
    IN  IF keep = {} THEN <<>> ELSE SubSeq(s, 1, SetMax(keep))

\* s without its leading run of lexemes of a kind in K
DropWhileStart(s, K) ==
    LET keep == {i \in 1..Len(s) : s[i].k \notin K}
    IN  IF keep = {} THEN <<>> ELSE SubSeq(s, SetMin(keep), Len(s))

\* String.prototype.trim
Trim(s) == DropWhileStart(DropWhileEnd(s, {"nl", "sp"}), {"nl", "sp"})

\* first 1-based index i >= from with s[i] = t, or 0
FirstIndex(s, t, from) ==
    LET hits == {i \in from..Len(s) : s[i] = t}
    IN  IF hits = {} THEN 0 ELSE SetMin(hits)

IndexFrom(s, t, from) == FirstIndex(s, t, from)

\* s.split(/\r?\n/): the lines of s, at least one; line k lies between the
\* (k-1)-th and the k-th line break
SplitLines(s) ==
    LET nls == {i \in 1..Len(s) : s[i] = NL}
        n == Cardinality(nls)
        pos(k) == IF k = 0 THEN 0
                  ELSE IF k = n + 1 THEN Len(s) + 1
                  ELSE CHOOSE i \in nls : Cardinality({j \in nls : j <= i}) = k
    IN  [k \in 1..(n + 1) |-> SubSeq(s, pos(k - 1) + 1, pos(k) - 1)]

RECURSIVE JoinLines(_)
\* lines.join("\n"), computed by halves
JoinLines(ls) ==
    IF ls = <<>> THEN <<>>
    ELSE IF Len(ls) = 1 THEN ls[1]
    ELSE LET h == Len(ls) \div 2
         IN  JoinLines(SubSeq(ls, 1, h)) \o <<NL>> \o JoinLines(SubSeq(ls, h + 1, Len(ls)))

\* line.replace(/^[>\t ]+/, "")
StripLinePrefix(line) == DropWhileStart(line, {"gt", "sp"})

MapLines(ls) == [i \in 1..Len(ls) |-> StripLinePrefix(ls[i])]

\* normalizeSectionBody: strip the blockquote prefix of every line
normalizeSectionBody(sectionBody) == JoinLines(MapLines(SplitLines(sectionBody)))

\* stripBlockquotePrefix: the same, then trim
stripBlockquotePrefix(text) == Trim(JoinLines(MapLines(SplitLines(text))))

(***************************************************************************)
(* The scanner's regular expressions                                       *)
(***************************************************************************)
\* 1-based index of the first lexeme after index j that is not white space
\* (Len(s) + 1 when the white space runs to the end)
WsStop(s, j) ==
    LET stops == {i \in (j + 1)..Len(s) : ~IsWs(s[i])}
    IN  IF stops = {} THEN Len(s) + 1 ELSE SetMin(stops)

\* first 1-based index i >= from that holds a BEGIN marker, or 0
FirstBegin(s, from) ==
    LET hits == {i \in from..Len(s) : IsBegin(s[i])}
    IN  IF hits = {} THEN 0 ELSE SetMin(hits)

\* "[\t\s]*(?:\r?\n)" after the BEGIN marker at index j: the greedy run of
\* white space is given back up to its last line break.  The offset after
\* that line break, or -1 when the run holds no line break.
BeginLineEnd(s, j) ==
    LET nls == {i \in (j + 1)..(WsStop(s, j) - 1) : s[i] = NL}
    IN  IF nls = {} THEN -1 ELSE SetMax(nls)

NoMatch == [found |-> FALSE]

\* SECTION_WITH_MARKERS_RE.exec(content) with the given lastIndex.
\* The match starts at the first BEGIN at or after lastIndex.  Group 2, the
\* lazy "{...}", ends at the first "}" that is followed by "%%", white space
\* and a line break: the payload of that BEGIN when its own line ends there,
\* and otherwise text running on to a later BEGIN marker, which is no JSON.
\* Group 3, the lazy body, runs to the first END marker (the lookahead).
RECURSIVE FirstClose(_, _)
\* first BEGIN marker at index >= from whose payload ends with "}" and whose
\* line ends after it, or 0
FirstClose(s, from) ==
    LET j == FirstBegin(s, from)
    IN  IF j = 0 THEN 0
        ELSE IF s[j].j # UnclosedJson /\ BeginLineEnd(s, j) # -1 THEN j
        ELSE FirstClose(s, j + 1)

\* a section regexp whose body is greedy: it runs to the last END marker
SectionExecGreedy(content, lastIndex) ==
    LET i == FirstBegin(content, lastIndex + 1)
        ends == {k \in 1..Len(content) : content[k] = END}
    IN  IF i = 0 \/ BeginLineEnd(content, i) = -1 \/ ends = {} THEN NoMatch
        ELSE IF SetMax(ends) <= BeginLineEnd(content, i) THEN NoMatch
        ELSE [found |-> TRUE,
              index |-> i - 1,
              jsonRaw |-> content[i].j,
              bodyStart |-> BeginLineEnd(content, i),
              bodyEnd |-> SetMax(ends) - 1]

SectionExec(content, lastIndex) ==
    LET i == FirstBegin(content, lastIndex + 1)
    IN  IF i = 0 THEN NoMatch
        ELSE
          LET j == FirstClose(content, i)
          IN  IF j = 0 THEN NoMatch
              ELSE
                LET bodyStart == BeginLineEnd(content, j)
                    e == IndexFrom(content, END, bodyStart + 1)
                IN  IF e = 0 THEN NoMatch
                    ELSE [found |-> TRUE,
                          index |-> i - 1,
                          jsonRaw |-> IF j = i THEN content[i].j ELSE BadJson,
                          bodyStart |-> bodyStart,
                          bodyEnd |-> e - 1]

\* an END search that was not given its lastIndex and starts at offset 0
SectionEndExecFromStart(content, lastIndex) == IndexFrom(content, END, 1) - 1

\* SECTION_END_LINE_RE.exec(content) with the given lastIndex: the 0-based
\* offset of the first END marker at or after lastIndex, or -1
SectionEndExec(content, lastIndex) == IndexFrom(content, END, lastIndex + 1) - 1

\* QUOTE_BLOCK_RE / COMM_BLOCK_RE .exec(normalized):
\*   open \s* \r?\n? ([\s\S]*?) \r?\n? close
\* the leftmost open marker that has a close marker after it; the capture
\* starts after the white space that follows the open marker and runs to
\* the first close marker, less one line break before it.
BlockExec(n, open, close) ==
    LET i == IndexFrom(n, open, 1)
        e == IF i = 0 THEN 0 ELSE IndexFrom(n, close, i + 1)
    IN  IF e = 0 THEN NoMatch
        ELSE
          LET stop == WsStop(n, i)
          IN  [found |-> TRUE,
               cap |-> IF e - 1 >= stop /\ n[e - 1] = NL
                       THEN SubSeq(n, stop, e - 2)
                       ELSE SubSeq(n, stop, e - 1)]

QUOTE_BLOCK_RE(n) == BlockExec(n, Q_BEGIN, Q_END)
COMM_BLOCK_RE(n) == BlockExec(n, C_BEGIN, C_END)

(***************************************************************************)
(* AnnotationParser.parseWithRanges                                        *)
(***************************************************************************)
\* Map.prototype.set on a map kept as the sequence of its entries in
\* insertion order: an existing key keeps its place and takes the new value
MapSet(m, rec) ==
    IF \E i \in 1..Len(m) : m[i].id = rec.id
    THEN [i \in 1..Len(m) |-> IF m[i].id = rec.id THEN rec ELSE m[i]]
    ELSE Append(m, rec)

MapHas(m, id) == \E i \in 1..Len(m) : m[i].id = id
MapGet(m, id) == m[CHOOSE i \in 1..Len(m) : m[i].id = id]
MapKeys(m) == {m[i].id : i \in 1..Len(m)}

\* the record parseWithRanges builds for one matched section; ok is FALSE
\* when the section is skipped (no quote block, no comment block, no JSON)
SectionRecord(content, match) ==
    LET rawStart == match.index
        rawEnd == SectionEndExec(content, match.bodyEnd) + 1
        normalized == normalizeSectionBody(Slice(content, match.bodyStart, match.bodyEnd))
        qm == QUOTE_BLOCK_RE(normalized)
        cm == COMM_BLOCK_RE(normalized)
        parsed == tryParseJsonFrom(match.jsonRaw)
    IN  IF ~qm.found \/ ~cm.found \/ parsed.error # ""
        THEN [ok |-> FALSE]
        ELSE [ok |-> TRUE,
              rec |-> [id |-> parsed.json.id,
                       text |-> stripBlockquotePrefix(qm.cap),
                       comment |-> stripBlockquotePrefix(cm.cap),
                       json |-> parsed.json,
                       range |-> [start |-> rawStart, end |-> rawEnd],
                       raw |-> Slice(content, rawStart, rawEnd)]]

RECURSIVE ParseLoop(_, _, _)
ParseLoop(content, lastIndex, out) ==
    LET match == SectionExec(content, lastIndex)
    IN  IF ~match.found THEN out
        ELSE IF SectionEndExec(content, match.bodyEnd) = -1
             THEN ParseLoop(content, match.bodyEnd, out)
        ELSE LET r == SectionRecord(content, match)
             IN  ParseLoop(content, match.bodyEnd,
                           IF r.ok THEN MapSet(out, r.rec) ELSE out)

parseWithRanges(content) == ParseLoop(content, 0, <<>>)

(***************************************************************************)
(* AnnotationParser.validateFileAnnotations                                *)
(***************************************************************************)
Issue(start, end, problem, hint) ==
    [range |-> [start |-> start, end |-> end], problem |-> problem, hint |-> hint]

\* a validator that reports no missing comment block
SectionIssuesWithoutComment(content, match) ==
    LET rawStart == match.index
        rawEnd == SectionEndExec(content, match.bodyEnd) + 1
        bodyNorm == normalizeSectionBody(Slice(content, match.bodyStart, match.bodyEnd))
        qm == QUOTE_BLOCK_RE(bodyNorm)
        parsed == tryParseJsonFrom(match.jsonRaw)
    IN  (IF ~qm.found
         THEN <<Issue(rawStart, rawEnd, "Missing quote block", "Q_BEGIN ... Q_END")>>
         ELSE <<>>)
        \o (IF parsed.error # ""
            THEN <<Issue(rawStart, rawEnd, parsed.error, "BEGIN { ... }")>>
            ELSE <<>>)

SectionIssues(content, match) ==
    LET rawStart == match.index
        rawEnd == SectionEndExec(content, match.bodyEnd) + 1
        bodyNorm == normalizeSectionBody(Slice(content, match.bodyStart, match.bodyEnd))
        qm == QUOTE_BLOCK_RE(bodyNorm)
        cm == COMM_BLOCK_RE(bodyNorm)
        parsed == tryParseJsonFrom(match.jsonRaw)
    IN  (IF ~qm.found
         THEN <<Issue(rawStart, rawEnd, "Missing quote block", "Q_BEGIN ... Q_END")>>
         ELSE <<>>)
        \o (IF ~cm.found
            THEN <<Issue(rawStart, rawEnd, "Missing comment block", "C_BEGIN ... C_END")>>
            ELSE <<>>)
        \o (IF parsed.error # ""
            THEN <<Issue(rawStart, rawEnd, parsed.error, "BEGIN { ... }")>>
            ELSE <<>>)

RECURSIVE ValidateLoop(_, _, _)
ValidateLoop(content, lastIndex, issues) ==
    LET match == SectionExec(content, lastIndex)
    IN  IF ~match.found THEN issues
        ELSE IF SectionEndExec(content, match.bodyEnd) = -1
             THEN ValidateLoop(content, match.bodyEnd,
                      Append(issues, Issue(match.index, match.bodyEnd,
                                           "Missing END marker", "Ensure a line exactly like: END")))
        ELSE ValidateLoop(content, match.bodyEnd, issues \o SectionIssues(content, match))

validateFileAnnotations(content) == ValidateLoop(content, 0, <<>>)

(***************************************************************************)
(* AnnotationManager: rendering a block                                    *)
(***************************************************************************)
\* a ZoteroAnnotation: its id, one more payload field, the quote (text)
\* and the comment
Annotation(id, color, text, comment) ==
    [id |-> id, color |-> color, text |-> text, comment |-> comment]

\* the template context buildAnnotationSection builds: the BEGIN marker
\* carries the payload with text and comment blanked
TemplateContext(json) ==
    [beginMarker |-> Begin(JSONstringify([json EXCEPT !.text = <<>>, !.comment = <<>>])),
     quote |-> json.text,
     comment |-> json.comment,
     id |-> json.id]

\* a template that writes no comment sub-block for an empty comment
RenderTemplateOmittingEmptyComment(ctx) ==
    <<ctx.beginMarker, NL,
      GT, SP, Hdr, NL,
      GT, SP, Q_BEGIN, NL,
      GT, SP, GT, SP>> \o ctx.quote \o <<NL,
      GT, SP, Q_END, NL,
      GT>>
    \o (IF Trim(ctx.comment) # <<>>
        THEN <<NL, GT, SP, C_BEGIN, NL,
               GT, SP>> \o ctx.comment \o <<NL,
               GT, SP, C_END, Anchor(ctx.id)>>
        ELSE <<Anchor(ctx.id)>>)
    \o <<NL, NL, END>>

\* the default annotation block template, rendered with a context
RenderTemplate(ctx) ==
    <<ctx.beginMarker, NL,
      GT, SP, Hdr, NL,
      GT, SP, Q_BEGIN, NL,
      GT, SP, GT, SP>> \o ctx.quote \o <<NL,
      GT, SP, Q_END, NL,
      GT>>
    \o (IF Trim(ctx.comment) # <<>>
        THEN <<NL, GT, SP, C_BEGIN, NL,
               GT, SP>> \o ctx.comment \o <<NL,
               GT, SP, C_END, Anchor(ctx.id)>>
        ELSE <<NL, GT, SP, C_BEGIN, SP, C_END, Anchor(ctx.id)>>)
    \o <<NL, NL, END>>

\* a renderer that swallows the template's error and renders nothing
buildAnnotationSectionSwallowing(json, template) ==
    IF template = "broken" THEN [threw |-> FALSE, text |-> <<>>]
    ELSE [threw |-> FALSE, text |-> Trim(RenderTemplate(TemplateContext(json)))]

\* buildAnnotationSection: renderString(template, context).trim(); a
\* template that does not compile or evaluate makes renderString throw
buildAnnotationSection(json, template) ==
    IF template = "broken" THEN [threw |-> TRUE]
    ELSE [threw |-> FALSE, text |-> Trim(RenderTemplate(TemplateContext(json)))]

(***************************************************************************)
(* AnnotationManager: the text each operation computes                     *)
(***************************************************************************)
\* content.replace(/(\r?\n)+$/g, "") and content.replace(/^(\r?\n)+/g, "")
StripTrailingNL(s) == DropWhileEnd(s, {"nl"})
StripLeadingNL(s) == DropWhileStart(s, {"nl"})

\* an append that keeps the line breaks the content ends with
insertAtEndKeepingBreaks(content, section) == content \o <<NL, NL>> \o section

insertAtEnd(content, section) == StripTrailingNL(content) \o <<NL, NL>> \o section

\* an insert that looks for the last BLOCKS_END marker (lastIndexOf)
insertBeforeLastBlocksEnd(content, section) ==
    LET hits == {i \in 1..Len(content) : content[i] = BLOCKS_END}
        blocksEndIndex == IF hits = {} THEN -1 ELSE SetMax(hits) - 1
    IN  IF blocksEndIndex # -1
        THEN StripTrailingNL(Slice(content, 0, blocksEndIndex))
             \o <<NL, NL>> \o section \o <<NL, NL>>
             \o StripLeadingNL(SliceFrom(content, blocksEndIndex))
        ELSE insertAtEnd(content, section)

insertInAnnotationBlocks(content, section) ==
    LET blocksEndIndex == IndexFrom(content, BLOCKS_END, 1) - 1
    IN  IF blocksEndIndex # -1
        THEN StripTrailingNL(Slice(content, 0, blocksEndIndex))
             \o <<NL, NL>> \o section \o <<NL, NL>>
             \o StripLeadingNL(SliceFrom(content, blocksEndIndex))
        ELSE insertAtEnd(content, section)

insertByStrategy(content, section, where) ==
    IF where = "annotation-blocks" THEN insertInAnnotationBlocks(content, section)
    ELSE insertAtEnd(content, section)

\* a splice that keeps the last lexeme of the range, the old END marker
SpliceReplacementKeepingEnd(content, target, replacement) ==
    Slice(content, 0, target.range.start) \o replacement
    \o SliceFrom(content, target.range.end - 1)

\* a splice that takes one lexeme too many after the range
SpliceReplacementPastEnd(content, target, replacement) ==
    Slice(content, 0, target.range.start) \o replacement
    \o SliceFrom(content, target.range.end + 1)

\* a splice that drops the text after the range
SpliceReplacementDroppingRest(content, target, replacement) ==
    Slice(content, 0, target.range.start) \o replacement

\* updateAnnotation's splice of the replacement into the target's range
SpliceReplacement(content, target, replacement) ==
    Slice(content, 0, target.range.start) \o replacement \o SliceFrom(content, target.range.end)

\* before.replace(/(\r?\n)+$/g, "\n") and after.replace(/^(\r?\n)+/g, "\n")
CollapseTrailingNL(s) == IF s # <<>> /\ s[Len(s)] = NL THEN StripTrailingNL(s) \o <<NL>> ELSE s
CollapseLeadingNL(s) == IF s # <<>> /\ s[1] = NL THEN <<NL>> \o StripLeadingNL(s) ELSE s

\* removeAnnotation's new content
RemoveSection(content, target) ==
    CollapseTrailingNL(SliceTo(content, target.range.start - 1))
    \o CollapseLeadingNL(SliceFrom(content, target.range.end))

(***************************************************************************)
(* removeAnnotation of src/view/annotation-manager.ts, which joins the     *)
(* two sides of the removed range                                          *)
(***************************************************************************)
\* the trailing and the leading run of white space of a text
TrailingWs(s) == SubSeq(s, Len(DropWhileEnd(s, {"nl", "sp"})) + 1, Len(s))
LeadingWs(s) == SubSeq(s, 1, Len(s) - Len(DropWhileStart(s, {"nl", "sp"})))

HasNL(s) == \E i \in 1..Len(s) : s[i] = NL

\* before.match(/(?:[ \t]*\r?\n[ \t]*)+$/)?.[0] ?? "": the trailing white
\* space of before when it holds a line break
leftBlank(before) == IF HasNL(TrailingWs(before)) THEN TrailingWs(before) ELSE <<>>

\* after.match(/^[ \t]*(?:\r?\n[ \t]*)+/)?.[0] ?? "": the leading white
\* space of after when it holds a line break
rightBlank(after) == IF HasNL(LeadingWs(after)) THEN LeadingWs(after) ELSE <<>>

\* before less leftBlank, then .replace(/[ \t]+$/g, "")
beforeCore(before) ==
    DropWhileEnd(SubSeq(before, 1, Len(before) - Len(leftBlank(before))), {"sp"})

afterCore(after) == SubSeq(after, Len(rightBlank(after)) + 1, Len(after))

\* line breaks put between the sides: one blank line
MAX_NEWLINES_BETWEEN == 2

NLrepeat(n) == [i \in 1..n |-> NL]

\* a join that never puts a space between two words
joinWithoutSpace(left, right, hadBoundaryBreak) ==
    IF hadBoundaryBreak THEN NLrepeat(MAX_NEWLINES_BETWEEN) ELSE <<>>

\* what is put between the cores
join(left, right, hadBoundaryBreak) ==
    IF hadBoundaryBreak THEN NLrepeat(MAX_NEWLINES_BETWEEN)
    ELSE IF left # <<>> /\ right # <<>>
            /\ ~IsWs(left[Len(left)]) /\ ~IsWs(right[1])
         THEN <<SP>>
         ELSE <<>>

\* newContent of removeAnnotation for a target found
JoinedRemoval(content, target) ==
    LET before == Slice(content, 0, target.range.start)
        after == SliceFrom(content, target.range.end)
        hadBoundaryBreak == Len(leftBlank(before)) > 0 \/ Len(rightBlank(after)) > 0
    IN  beforeCore(before)
        \o join(beforeCore(before), afterCore(after), hadBoundaryBreak)
        \o afterCore(after)

(***************************************************************************)
(* Bounds and inputs                                                       *)
(***************************************************************************)
\* calls made on one AnnotationManager
MaxCalls == 2
\* calls of validateFileAnnotations and refreshAnnotationMap on one manager
MaxScans == 1
\* pieces (records, malformed records, prose) a scanned document is made of
MaxPieces == 2
\* lexemes in a quote or a comment of the round trip
MaxTextLen == 3
\* well-formed records placed one after another in a document
MaxRecords == 3

a == Chr("a")
b == Chr("b")

\* patch.json of an update whose patch carries no json
NoJson == [undefined |-> TRUE]

\* quotes and comments the reader reports
Texts == {<<>>, <<a>>, <<a, NL, b>>}

Ids == {"a1", "a2"}

\* addAnnotation(data, options): the annotation and options.insertAt
AddInputs ==
    {<<Annotation("a1", "y", <<a>>, <<>>), "annotation-blocks">>,
     <<Annotation("a2", "y", <<b>>, <<a>>), "end">>,
     <<Annotation("a1", "r", <<a, NL, b>>, <<b>>), "end">>}

\* updateAnnotation(id, patch): the id and patch.json; the reader passes
\* the annotation's own id, a caller may pass another, a patch may carry no
\* json, and a comment may hold the text of a marker
UpdateInputs ==
    {<<"a1", Annotation("a1", "r", <<a, NL, b>>, <<b>>)>>,
     <<"a1", Annotation("a2", "y", <<b>>, <<a>>)>>,
     <<"a2", Annotation("a2", "y", <<b>>, <<a, NL, END>>)>>,
     <<"a1", NoJson>>}

Templates == {"default", "broken"}

\* the block the default template renders
Block(json) == buildAnnotationSection(json, "default").text

\* documents the manager is created on: empty, a fresh reader note, blocks
\* between prose, blocks inside the BLOCKS section, two blocks of one id
Documents ==
    {<<>>,
     <<a, NL, BLOCKS_BEGIN, NL, BLOCKS_END, NL>>,
     <<a, b, NL, NL>> \o Block(Annotation("a1", "y", <<b>>, <<a>>)) \o <<NL, NL, b, a, NL>>,
     Block(Annotation("a1", "y", <<a>>, <<>>)) \o <<NL, NL>>
        \o Block(Annotation("a2", "r", <<b>>, <<b>>)) \o <<NL>>,
     <<BLOCKS_BEGIN, NL, NL>> \o Block(Annotation("a2", "y", <<a>>, <<a>>))
        \o <<NL, NL, BLOCKS_END, NL, a>>,
     <<a, NL>> \o Block(Annotation("a1", "y", <<a>>, <<>>)) \o <<NL>>
        \o Block(Annotation("a1", "r", <<b>>, <<>>)) \o <<NL, b>>}

\* documents of a manager whose custom template does not render
BrokenTemplateDocuments ==
    {<<a, NL, BLOCKS_BEGIN, NL, BLOCKS_END, NL>>,
     <<a, b, NL, NL>> \o Block(Annotation("a1", "y", <<b>>, <<a>>)) \o <<NL, NL, b, a, NL>>}

\* a block with another BEGIN line in place of its own
WithBegin(block, begin) == <<begin>> \o Tail(block)

\* the payload buildAnnotationSection embeds: text and comment blanked
Payload(json) == [json EXCEPT !.text = <<>>, !.comment = <<>>]

\* well-formed records of the scanned documents
WellFormedRecords ==
    {Annotation("a1", "y", <<a>>, <<>>), Annotation("a2", "r", <<b>>, <<a, NL, b>>)}

\* the pieces of a scanned document: prose, a well-formed record, a BEGIN
\* line with no END line after it, a record whose payload is "{...}" text
\* that is no JSON, a record whose payload is cut short before its "}", and
\* a record with no comment sub-block
Prose == <<a, NL>>
WellFormedPiece(json) == Block(json) \o <<NL>>
DanglingPiece ==
    <<Begin(JSONstringify(Payload(Annotation("a3", "y", <<>>, <<>>)))), NL, GT, SP, b, NL>>
InvalidJsonPiece ==
    WithBegin(Block(Annotation("a4", "y", <<a>>, <<b>>)), Begin(BadJson)) \o <<NL>>
UnclosedJsonPiece ==
    WithBegin(Block(Annotation("a5", "y", <<b>>, <<>>)), Begin(UnclosedJson)) \o <<NL>>
MissingCommentPiece ==
    <<Begin(JSONstringify(Payload(Annotation("a6", "y", <<>>, <<>>)))), NL,
      GT, SP, Q_BEGIN, NL, GT, SP, GT, SP, a, NL, GT, SP, Q_END, NL, NL, END, NL>>

ScanPieces ==
    {Prose, DanglingPiece, InvalidJsonPiece, UnclosedJsonPiece, MissingCommentPiece}
    \cup {WellFormedPiece(json) : json \in WellFormedRecords}

RECURSIVE Concat(_)
Concat(ps) == IF ps = <<>> THEN <<>> ELSE ps[1] \o Concat(Tail(ps))

\* the documents made of at most MaxPieces pieces
ScanDocuments ==
    {Concat(ps) : ps \in UNION {[1..n -> ScanPieces] : n \in 0..MaxPieces}}

\* quotes and comments of at most MaxTextLen lexemes: letters, blanks, line
\* breaks, '>' and the text of the END marker
TextLexemes == {a, SP, NL, GT, END}
RichTexts == UNION {[1..n -> TextLexemes] : n \in 0..MaxTextLen}

\* the annotations rendered and parsed back: any quote with a plain
\* comment, and any comment with a plain quote
RoundTripInputs ==
    {Annotation("a1", "y", q, c) : q \in RichTexts, c \in {<<>>, <<b>>}}
    \cup {Annotation("a2", "r", <<a, NL, b>>, c) : c \in RichTexts}

\* documents with no record, which the round trip's block is added to
RecordFreeDocuments == {<<>>, <<a, NL, BLOCKS_BEGIN, NL, BLOCKS_END, NL>>}

(***************************************************************************)
(* The AnnotationManager and the vault file                                *)
(***************************************************************************)
VARIABLES
    fileText,                 \* the text of the file in the vault
    createdFrom,              \* the content the manager was constructed on
    customAnnotationTemplate, \* the manager's template
    annotationMap,            \* _annotationMap
    operationLock,            \* _operationLock: the promise at the chain's end
    settled,                  \* the lock promises that are resolved
    calls,                    \* the calls made, in call order, each with its
                              \* position and its local variables
    handlers,                 \* the view's event handlers in flight
    bridge                    \* the IframeReaderBridge and its child

vars == <<fileText, createdFrom, customAnnotationTemplate, annotationMap,
          operationLock, settled, calls, handlers, bridge>>

\* the view and the bridge: the variables the manager's operations leave alone
viewVars == <<handlers, bridge>>

\* new IframeReaderBridge(...): state idle, nothing queued, child, iframe,
\* token and _readerOpts undefined (0). connects counts the connect() bodies
\* started; the n-th creates iframe n, whose child is child n. procs[n] is
\* the position of the n-th connect(), childPc[n] the position of child n,
\* drain[n] the tasks register() of child n has still to run. reloadTimer
\* is the setTimeout of iframe.onload. issued records the calls made to
\* initReader, setColorScheme and navigate, the k-th with argument k;
\* childCalls records the methods invoked on a child; disposed says that
\* dispose() has completed and connect() or reconnect() was not called since.
\* _readerOpts undefined
NoOpts == 0
BridgeConstructed ==
    [state |-> "idle", queue |-> <<>>, child |-> 0, iframe |-> 0, token |-> 0,
     readerOpts |-> NoOpts, connects |-> 0, procs |-> <<>>, childPc |-> <<>>,
     drain |-> <<>>, reloadTimer |-> FALSE, issued |-> <<>>, childCalls |-> <<>>,
     disposed |-> FALSE]

\* the constructor: _annotationMap is parsed from the content read, and
\* _operationLock is Promise.resolve(), promise 0
Created(content, template) ==
    /\ fileText = content
    /\ createdFrom = content
    /\ customAnnotationTemplate = template
    /\ annotationMap = parseWithRanges(fileText)
    /\ operationLock = 0
    /\ settled = {0}
    /\ calls = <<>>
    /\ handlers = <<>>
    /\ bridge = BridgeConstructed

Init ==
    \/ \E content \in Documents : Created(content, "default")
    \/ \E content \in BrokenTemplateDocuments : Created(content, "broken")

\* withLock up to its first await: the call takes the chain's end as
\* currentLock and puts its own promise at the end
NewCall(op, id, json, where) ==
    [op |-> op, id |-> id, json |-> json, where |-> where,
     pc |-> "awaitLock", currentLock |-> operationLock,
     content |-> <<>>, modified |-> FALSE, updated |-> <<>>,
     result |-> "pending", issues |-> <<>>, after |-> <<>>]

withLock(op, id, json, where) ==
    /\ calls' = Append(calls, NewCall(op, id, json, where))
    /\ operationLock' = Len(calls) + 1
    /\ UNCHANGED <<fileText, createdFrom, customAnnotationTemplate, annotationMap, settled>>
    /\ UNCHANGED viewVars

addAnnotation(json, where) ==
    /\ Len(calls) < MaxCalls
    /\ withLock("add", json.id, json, where)

updateAnnotation(id, json) ==
    /\ Len(calls) < MaxCalls
    /\ withLock("update", id, json, "")

removeAnnotation(id) ==
    /\ Len(calls) < MaxCalls
    /\ withLock("remove", id, NoJson, "")

validateFileAnnotationsCall ==
    /\ Len(calls) < MaxScans
    /\ withLock("validate", "", NoJson, "")

refreshAnnotationMap ==
    /\ Len(calls) < MaxScans
    /\ withLock("refresh", "", NoJson, "")

\* a withLock that does not await the promise it took
LockIsFreeUnawaited(c) == TRUE

\* "await currentLock" is over once the promise taken at entry is resolved
LockIsFree(c) == calls[c].currentLock \in settled

\* await currentLock resolves; operation() starts and calls vault.read
LockAcquired(c) ==
    /\ c <= Len(calls)
    /\ calls[c].pc = "awaitLock"
    /\ LockIsFree(c)
    /\ calls' = [calls EXCEPT ![c].pc = "reading"]
    /\ UNCHANGED <<fileText, createdFrom, customAnnotationTemplate, annotationMap,
                   operationLock, settled>>
    /\ UNCHANGED viewVars

\* a withLock that resolves its promise after the operation returns, with
\* no finally block: a throw leaves the promise pending
ReleasedOnReturn(c, outcome) == IF outcome = "threw" THEN settled ELSE settled \cup {c}

\* the promises resolved once call c has left withLock with the given
\* outcome: the finally block resolves the call's own promise
Released(c, outcome) == settled \cup {c}

\* the call returns or throws: the finally block of withLock runs
Finish(c, result, issues) ==
    /\ calls' = [calls EXCEPT ![c].pc = "done", ![c].content = fileText,
                              ![c].result = result, ![c].issues = issues,
                              ![c].after = fileText]
    /\ settled' = Released(c, result)

\* the call goes on to vault.modify(file, updated)
StartModify(c, updated) ==
    /\ calls' = [calls EXCEPT ![c].pc = "writing", ![c].content = fileText,
                              ![c].modified = TRUE, ![c].updated = updated]
    /\ UNCHANGED settled

\* what an operation does once vault.read has resolved: it returns false,
\* throws, or goes on to write the updated text
ReturnFalse == [kind |-> "false"]
Throw == [kind |-> "threw"]
Modify(updated) == [kind |-> "modify", updated |-> updated]

Continue(c, outcome) ==
    IF outcome.kind = "modify" THEN StartModify(c, outcome.updated)
    ELSE Finish(c, outcome.kind, <<>>)

AddOutcome(content, json, where, template) ==
    LET section == buildAnnotationSection(json, template)
    IN  IF section.threw THEN Throw
        ELSE Modify(insertByStrategy(content, section.text, where))

\* an update that inserts the block when no record carries the id
UpdateOutcomeUpsert(content, id, json, template) ==
    LET map == parseWithRanges(content)
    IN  IF json = NoJson THEN ReturnFalse
        ELSE LET replacement == buildAnnotationSection(json, template)
             IN  IF replacement.threw THEN Throw
                 ELSE IF ~MapHas(map, id)
                      THEN Modify(insertAtEnd(content, replacement.text))
                      ELSE Modify(SpliceReplacement(content, MapGet(map, id), replacement.text))

UpdateOutcome(content, id, json, template) ==
    LET map == parseWithRanges(content)
    IN  IF ~MapHas(map, id) THEN ReturnFalse
        ELSE IF json = NoJson THEN ReturnFalse
        ELSE LET replacement == buildAnnotationSection(json, template)
             IN  IF replacement.threw THEN Throw
                 ELSE Modify(SpliceReplacement(content, MapGet(map, id), replacement.text))

RemoveOutcome(content, id) ==
    LET map == parseWithRanges(content)
    IN  IF ~MapHas(map, id) THEN ReturnFalse
        ELSE Modify(RemoveSection(content, MapGet(map, id)))

\* vault.read resolves in addAnnotation, which runs on to vault.modify
AddRead(c) ==
    /\ c <= Len(calls)
    /\ calls[c].pc = "reading" /\ calls[c].op = "add"
    /\ Continue(c, AddOutcome(fileText, calls[c].json, calls[c].where,
                              customAnnotationTemplate))
    /\ UNCHANGED <<fileText, createdFrom, customAnnotationTemplate, annotationMap, operationLock>>
    /\ UNCHANGED viewVars

\* vault.read resolves in updateAnnotation
UpdateRead(c) ==
    /\ c <= Len(calls)
    /\ calls[c].pc = "reading" /\ calls[c].op = "update"
    /\ annotationMap' = parseWithRanges(fileText)
    /\ Continue(c, UpdateOutcome(fileText, calls[c].id, calls[c].json,
                                 customAnnotationTemplate))
    /\ UNCHANGED <<fileText, createdFrom, customAnnotationTemplate, operationLock>>
    /\ UNCHANGED viewVars

\* vault.read resolves in removeAnnotation
RemoveRead(c) ==
    /\ c <= Len(calls)
    /\ calls[c].pc = "reading" /\ calls[c].op = "remove"
    /\ annotationMap' = parseWithRanges(fileText)
    /\ Continue(c, RemoveOutcome(fileText, calls[c].id))
    /\ UNCHANGED <<fileText, createdFrom, customAnnotationTemplate, operationLock>>
    /\ UNCHANGED viewVars

\* vault.read resolves in validateFileAnnotations
ValidateRead(c) ==
    /\ c <= Len(calls)
    /\ calls[c].pc = "reading" /\ calls[c].op = "validate"
    /\ Finish(c, "issues", validateFileAnnotations(fileText))
    /\ UNCHANGED <<fileText, createdFrom, customAnnotationTemplate, annotationMap, operationLock>>
    /\ UNCHANGED viewVars

\* vault.read resolves in refreshAnnotationMap
RefreshRead(c) ==
    /\ c <= Len(calls)
    /\ calls[c].pc = "reading" /\ calls[c].op = "refresh"
    /\ annotationMap' = parseWithRanges(fileText)
    /\ Finish(c, "void", <<>>)
    /\ UNCHANGED <<fileText, createdFrom, customAnnotationTemplate, operationLock>>
    /\ UNCHANGED viewVars

\* a manager that parses the text it read again after the write
MapAfterModifyFromRead(content, updated) == parseWithRanges(content)

\* this._annotationMap = AnnotationParser.parseWithRanges(updated)
MapAfterModify(content, updated) == parseWithRanges(updated)

\* vault.modify resolves: the file holds the updated text, the map is
\* parsed from it and the call returns true
ModifyResolved(c) ==
    /\ c <= Len(calls)
    /\ calls[c].pc = "writing"
    /\ fileText' = calls[c].updated
    /\ annotationMap' = MapAfterModify(calls[c].content, calls[c].updated)
    /\ calls' = [calls EXCEPT ![c].pc = "done", ![c].result = "true",
                              ![c].after = fileText']
    /\ settled' = Released(c, "true")
    /\ UNCHANGED <<createdFrom, customAnnotationTemplate, operationLock>>
    /\ UNCHANGED viewVars

Next ==
    \/ \E in \in AddInputs : addAnnotation(in[1], in[2])
    \/ \E in \in UpdateInputs : updateAnnotation(in[1], in[2])
    \/ \E id \in Ids : removeAnnotation(id)
    \/ \E c \in 1..MaxCalls : LockAcquired(c)
    \/ \E c \in 1..MaxCalls : AddRead(c)
    \/ \E c \in 1..MaxCalls : UpdateRead(c)
    \/ \E c \in 1..MaxCalls : RemoveRead(c)
    \/ \E c \in 1..MaxCalls : ModifyResolved(c)

Spec == Init /\ [][Next]_vars

(***************************************************************************)
(* The promise chain alone: withLock around an operation of any kind.      *)
(* operation() is a promise that resolves or rejects; the text the         *)
(* operation reads and writes is left out.                                 *)
(***************************************************************************)
OperationKinds == {"add", "update", "remove"}

\* what operation() settles to: every operation returns true or throws (its
\* template or a storage call), updateAnnotation and removeAnnotation also
\* return false
Outcomes(op) == IF op = "add" THEN {"true", "threw"} ELSE {"true", "false", "threw"}

\* a mutating operation is called: withLock runs up to "await currentLock"
OperationCalled(op) ==
    /\ Len(calls) < MaxCalls
    /\ withLock(op, "a1", NoJson, "")

\* "await operation()" settles and the finally block runs
OperationSettled(c, outcome) ==
    /\ c <= Len(calls)
    /\ calls[c].pc = "reading"
    /\ outcome \in Outcomes(calls[c].op)
    /\ Finish(c, outcome, <<>>)
    /\ UNCHANGED <<fileText, createdFrom, customAnnotationTemplate, annotationMap, operationLock>>
    /\ UNCHANGED viewVars

LockInit == \E content \in RecordFreeDocuments : Created(content, "default")

LockNext ==
    \/ \E op \in OperationKinds : OperationCalled(op)
    \/ \E c \in 1..MaxCalls : LockAcquired(c)
    \/ \E c \in 1..MaxCalls, outcome \in {"true", "false", "threw"} : OperationSettled(c, outcome)

\* the storage calls of every operation settle and the event loop runs
\* every continuation that is ready
LockSpec ==
    /\ LockInit /\ [][LockNext]_vars
    /\ \A c \in 1..MaxCalls :
          /\ WF_vars(LockAcquired(c))
          /\ WF_vars(\E outcome \in {"true", "false", "threw"} : OperationSettled(c, outcome))

(***************************************************************************)
(* Scanning: validateFileAnnotations and refreshAnnotationMap on documents *)
(* that hold malformed records, and on documents of well-formed records    *)
(* placed one after another                                                *)
(***************************************************************************)
\* well-formed records with distinct ids
ChainRecords ==
    <<Annotation("a1", "y", <<a>>, <<>>),
      Annotation("a2", "r", <<b>>, <<a, NL, b>>),
      Annotation("a7", "y", <<a, NL, b>>, <<b>>),
      Annotation("a8", "r", <<>>, <<a>>),
      Annotation("a9", "y", <<b>>, <<>>)>>

\* what stands between two records: nothing, a line break, a blank line
Separators == {<<>>, <<NL>>, <<NL, NL>>}

\* the first n records, one after another
RECURSIVE Chain(_, _)
Chain(n, sep) ==
    IF n = 1 THEN Block(ChainRecords[1])
    ELSE Chain(n - 1, sep) \o sep \o Block(ChainRecords[n])

ChainLengths == 1..Min(MaxRecords, Len(ChainRecords))

AdjacentDocuments == {Chain(n, sep) : n \in ChainLengths, sep \in Separators}

\* records whose payload id is not a trimmed non-empty string: blanks around
\* the id, an empty id, no id field
UntrimmedIdPiece == WellFormedPiece(Annotation(" a1 ", "y", <<a>>, <<>>))
EmptyIdPiece == WellFormedPiece(Annotation("", "y", <<b>>, <<a>>))
NoIdPiece == WellFormedPiece(Annotation(NoId, "r", <<a>>, <<b>>))

IdDocuments ==
    {UntrimmedIdPiece,
     Prose \o EmptyIdPiece,
     NoIdPiece \o Prose,
     NoIdPiece \o WellFormedPiece(Annotation("a1", "y", <<a>>, <<>>))}

ScanInit ==
    \E content \in ScanDocuments \cup AdjacentDocuments \cup IdDocuments :
        Created(content, "default")

ScanNext ==
    \/ validateFileAnnotationsCall
    \/ refreshAnnotationMap
    \/ \E c \in 1..MaxScans : LockAcquired(c)
    \/ \E c \in 1..MaxScans : ValidateRead(c)
    \/ \E c \in 1..MaxScans : RefreshRead(c)

ScanSpec == ScanInit /\ [][ScanNext]_vars

(***************************************************************************)
(* Round trip: one addAnnotation, already called, on a record-free         *)
(* document                                                                *)
(***************************************************************************)
RoundTripInit ==
    \E content \in RecordFreeDocuments, json \in RoundTripInputs,
       where \in {"annotation-blocks", "end"} :
        /\ fileText = content
        /\ createdFrom = content
        /\ customAnnotationTemplate = "default"
        /\ annotationMap = parseWithRanges(content)
        /\ operationLock = 1
        /\ settled = {0}
        /\ calls = <<[op |-> "add", id |-> json.id, json |-> json, where |-> where,
                      pc |-> "awaitLock", currentLock |-> 0,
                      content |-> <<>>, modified |-> FALSE, updated |-> <<>>,
                      result |-> "pending", issues |-> <<>>, after |-> <<>>]>>
        /\ handlers = <<>>
        /\ bridge = BridgeConstructed

RoundTripNext ==
    \/ LockAcquired(1)
    \/ AddRead(1)
    \/ ModifyResolved(1)

RoundTripSpec == RoundTripInit /\ [][RoundTripNext]_vars

(***************************************************************************)
(* Properties                                                              *)
(***************************************************************************)
Called == 1..Len(calls)

\* the target's range in the text the call read
TargetRange(c) == MapGet(parseWithRanges(calls[c].content), calls[c].id).range

UpdateSucceeded(c) == calls[c].op = "update" /\ calls[c].result = "true"

\* C1: a successful updateAnnotation writes the text it read with the
\* rendered replacement in place of the target's range: the lexemes before
\* range.start and those from range.end on are kept, in order.
C1_UpdateSplicesRange ==
    \A c \in Called : UpdateSucceeded(c) =>
        LET old == calls[c].content
            new == calls[c].after
            r == TargetRange(c)
            replacement == Block(calls[c].json)
        IN  /\ Len(new) = r.start + Len(replacement) + (Len(old) - r.end)
            /\ SubSeq(new, 1, r.start) = SubSeq(old, 1, r.start)
            /\ SubSeq(new, r.start + 1, r.start + Len(replacement)) = replacement
            /\ SubSeq(new, r.start + Len(replacement) + 1, Len(new))
                  = SubSeq(old, r.end + 1, Len(old))

\* an update succeeded on a record with text before it and after it
C1_Witness ==
    \E c \in Called :
        /\ UpdateSucceeded(c)
        /\ TargetRange(c).start > 0
        /\ TargetRange(c).end < Len(calls[c].content)
        /\ calls[c].after # calls[c].content

UnknownId(c) == ~MapHas(parseWithRanges(calls[c].content), calls[c].id)

\* C2: updateAnnotation and removeAnnotation with an id no parsed record
\* carries return false and write nothing: the file holds the same text
\* after the call as the call read.
C2_UnknownIdNoWrite ==
    \A c \in Called :
        (calls[c].pc = "done" /\ calls[c].op \in {"update", "remove"} /\ UnknownId(c)) =>
            /\ calls[c].result = "false"
            /\ ~calls[c].modified
            /\ calls[c].after = calls[c].content

\* an update and a remove returned false for an unknown id on a document
\* that holds a record of another id
C2_Witness ==
    \E c, d \in Called :
        /\ calls[c].op = "update" /\ calls[d].op = "remove"
        /\ calls[c].pc = "done" /\ calls[d].pc = "done"
        /\ UnknownId(c) /\ UnknownId(d)
        /\ calls[c].json # NoJson
        /\ parseWithRanges(calls[c].content) # <<>>

\* the call reached the rendering of its block
Renders(c) ==
    \/ calls[c].op = "add"
    \/ calls[c].op = "update" /\ ~UnknownId(c) /\ calls[c].json # NoJson

\* C3: when the template throws during addAnnotation or updateAnnotation
\* the call ends before any write: the file holds the text the call read.
C3_RenderFailureNoWrite ==
    \A c \in Called :
        (calls[c].pc = "done" /\ customAnnotationTemplate = "broken" /\ Renders(c)) =>
            /\ calls[c].result = "threw"
            /\ ~calls[c].modified
            /\ calls[c].after = calls[c].content

\* an add and an update both threw while rendering
C3_Witness ==
    \E c, d \in Called :
        /\ calls[c].op = "add" /\ calls[c].result = "threw"
        /\ calls[d].op = "update" /\ calls[d].result = "threw"
        /\ fileText = createdFrom

InCriticalSection(c) == calls[c].pc \in {"reading", "writing"}

\* the text in the file when call c entered its operation, had the calls
\* before it run one after another
TextLeftBy(c) == IF c = 0 THEN createdFrom ELSE calls[c].after

\* C4: the read-compute-write sections of overlapping calls run one at a
\* time and in call order; each call reads the text the call before it left
\* in the file.
C4_OperationsSerialized ==
    /\ \A c, d \in Called : (c # d /\ InCriticalSection(c)) => ~InCriticalSection(d)
    /\ \A c, d \in Called : (c < d /\ calls[d].pc # "awaitLock") => calls[c].pc = "done"
    /\ \A c \in Called : calls[c].pc \in {"writing", "done"} =>
            calls[c].content = TextLeftBy(c - 1)

\* a call has read and changed the text that the call before it wrote
C4_Witness ==
    \E c \in Called :
        /\ c > 1
        /\ calls[c].currentLock = c - 1
        /\ calls[c].pc = "done"
        /\ calls[c - 1].result = "true"
        /\ calls[c - 1].after # calls[c - 1].content
        /\ calls[c].content = calls[c - 1].after
        /\ calls[c].result = "true"
        /\ calls[c].after # calls[c].content

\* C5: an operation in the chain runs to completion before the next one
\* starts, the chain is released whether it returned true, returned false
\* or threw, and every call made eventually completes.
C5_ChainAlwaysReleased ==
    /\ [](\A c \in Called : calls[c].pc = "done" => c \in settled)
    /\ [](\A c, d \in Called : (c < d /\ InCriticalSection(d)) => calls[c].pc = "done")
    /\ \A c \in 1..MaxCalls : (Len(calls) >= c) ~> (Len(calls) >= c /\ calls[c].pc = "done")

\* a call that awaited the promise of a call that threw has run to its end
C5_Witness ==
    \E c \in Called :
        /\ c > 1
        /\ calls[c].currentLock = c - 1
        /\ calls[c - 1].result = "threw"
        /\ calls[c].pc = "done"
        /\ calls[c].result = "true"

(***************************************************************************)
(* Properties of the scanner and the validator                             *)
(***************************************************************************)
Scanned(c) == calls[c].pc = "done" /\ calls[c].op \in {"validate", "refresh"}
Validated(c) == calls[c].pc = "done" /\ calls[c].op = "validate"

\* the block of the well-formed record w stands at offset i of the content
WellFormedAt(content, i, w) == Slice(content, i, i + Len(Block(w))) = Block(w)

\* the map holds a record with the payload, quote and comment of w
Returned(map, w) ==
    \E k \in 1..Len(map) :
        /\ map[k].json = Payload(w)
        /\ map[k].text = w.text
        /\ map[k].comment = w.comment

AllWellFormedReturned(content, map) ==
    \A w \in WellFormedRecords, i \in 0..Len(content) :
        WellFormedAt(content, i, w) => Returned(map, w)

\* C6: every well-formed record of a document is returned by
\* parseWithRanges with its own payload, quote and comment, whatever
\* malformed records stand before or after it.
C6_WellFormedRecordsReturned ==
    \A c \in Called : Scanned(c) => AllWellFormedReturned(calls[c].content, annotationMap)

\* 1-based indices of the BEGIN marker lines with no END marker after them
DanglingBegins(content) ==
    {i \in 1..Len(content) :
        /\ IsBegin(content[i])
        /\ BeginLineEnd(content, i) # -1
        /\ IndexFrom(content, END, i + 1) = 0}

MissingEndIssues(issues, start) ==
    {k \in 1..Len(issues) :
        issues[k].problem = "Missing END marker" /\ issues[k].range.start = start}

\* C7: for a BEGIN marker line with no END marker line after it,
\* parseWithRanges returns no record for the span and
\* validateFileAnnotations returns exactly one "Missing END marker"
\* diagnostic, whose range starts at the offset of that BEGIN.
C7_DanglingBeginDiagnosed ==
    \A c \in Called : Validated(c) =>
        \A i \in DanglingBegins(calls[c].content) :
            /\ \A k \in 1..Len(annotationMap) : annotationMap[k].range.start # i - 1
            /\ Cardinality(MissingEndIssues(calls[c].issues, i - 1)) = 1

\* 1-based indices of the BEGIN markers of BEGIN..END spans whose payload
\* is not valid JSON
InvalidJsonSpans(content) ==
    {i \in 1..Len(content) :
        /\ IsBegin(content[i])
        /\ ~content[i].j.ok
        /\ IndexFrom(content, END, i + 1) # 0}

\* C8: for a BEGIN..END span whose payload is not valid JSON,
\* parseWithRanges returns no record for the span and still returns the
\* other records, and validateFileAnnotations reports an "Invalid JSON"
\* diagnostic with a non-empty hint for the span.
C8_InvalidJsonDiagnosed ==
    \A c \in Called : Validated(c) =>
        \A i \in InvalidJsonSpans(calls[c].content) :
            /\ \A k \in 1..Len(annotationMap) : annotationMap[k].range.start # i - 1
            /\ AllWellFormedReturned(calls[c].content, annotationMap)
            /\ \E k \in 1..Len(calls[c].issues) :
                  /\ calls[c].issues[k].range.start = i - 1
                  /\ calls[c].issues[k].problem = "Invalid JSON"
                  /\ calls[c].issues[k].hint # ""

(***************************************************************************)
(* Properties of the round trip and of repeated updates                    *)
(***************************************************************************)
Added(c) == calls[c].op = "add" /\ calls[c].result = "true"

\* the map holds exactly one record, with the quote, the comment and the
\* payload of the annotation
ParsedBack(map, json) ==
    /\ Len(map) = 1
    /\ map[1].text = json.text
    /\ map[1].comment = json.comment
    /\ map[1].json = Payload(json)
    /\ map[1].id = json.id

HoldsMarker(text) == \E i \in 1..Len(text) : text[i].k \in {"mark", "begin"}

\* the text survives stripBlockquotePrefix: it is trimmed, no line of it
\* starts with '>' or a blank, and it holds no marker
PlainText(text) ==
    /\ Trim(text) = text
    /\ \A i \in 1..Len(text) :
          (i = 1 \/ text[i - 1] = NL) => text[i].k \notin {"gt", "sp"}
    /\ ~HoldsMarker(text)

RepeatedUpdate(c) ==
    /\ c > 1
    /\ calls[c].op = "update" /\ calls[c - 1].op = "update"
    /\ calls[c].id = calls[c - 1].id /\ calls[c].json = calls[c - 1].json
    /\ calls[c].pc = "done"

\* C10 as stated: for any document, id and patch, a second
\* updateAnnotation(id, patch) leaves the text the first one left.
C10_UpdateIdempotent ==
    \A c \in Called : RepeatedUpdate(c) => calls[c].after = calls[c - 1].after

HoldsEnd(text) == \E i \in 1..Len(text) : text[i] = END

\* the patch keeps the id and its quote and comment hold no END marker
KeepsIdNoEnd(id, json) ==
    json # NoJson => /\ json.id = id
                     /\ ~HoldsEnd(json.text)
                     /\ ~HoldsEnd(json.comment)

\* C10 (amended): when the patch carries the id it is applied to and its
\* quote and comment hold no END marker, a second updateAnnotation(id,
\* patch) leaves the text the first one left.
C10_UpdateIdempotentSameId ==
    \A c \in Called :
        (RepeatedUpdate(c) /\ KeepsIdNoEnd(calls[c].id, calls[c].json))
            => calls[c].after = calls[c - 1].after

\* an update that changed the text has been repeated and succeeded again
C10_Witness ==
    \E c \in Called :
        /\ RepeatedUpdate(c)
        /\ KeepsIdNoEnd(calls[c].id, calls[c].json)
        /\ calls[c - 1].result = "true" /\ calls[c].result = "true"
        /\ calls[c - 1].after # calls[c - 1].content
        /\ calls[c].after = calls[c - 1].after

(***************************************************************************)
(* Adding an annotation and removing it again, on documents that hold no   *)
(* record of the ids added                                                 *)
(***************************************************************************)
\* empty, a fresh reader note, prose with no line break, with one and with
\* several blank lines after it, a BLOCKS section with blank lines before
\* its end and text after it, and notes that hold a malformed record
InverseDocuments ==
    {<<>>,
     <<a, NL, BLOCKS_BEGIN, NL, BLOCKS_END, NL>>,
     <<a, b>>,
     <<a, NL, NL>>,
     <<a, SP, b, NL, NL, NL>>,
     <<a, NL, BLOCKS_BEGIN, NL, NL, NL, BLOCKS_END, NL, b, NL>>,
     <<BLOCKS_BEGIN, BLOCKS_END, NL, NL, a, BLOCKS_END>>,
     Prose \o DanglingPiece,
     InvalidJsonPiece \o Prose,
     MissingCommentPiece}

InverseInit == \E content \in InverseDocuments : Created(content, "default")

InverseNext ==
    \/ \E in \in AddInputs : addAnnotation(in[1], in[2])
    \/ \E id \in Ids : removeAnnotation(id)
    \/ \E c \in 1..MaxCalls : LockAcquired(c)
    \/ \E c \in 1..MaxCalls : AddRead(c)
    \/ \E c \in 1..MaxCalls : RemoveRead(c)
    \/ \E c \in 1..MaxCalls : ModifyResolved(c)

InverseSpec == InverseInit /\ [][InverseNext]_vars

(***************************************************************************)
(* removeAnnotation of src/view/annotation-manager.ts on a record with     *)
(* text on both sides; this manager has no lock                            *)
(***************************************************************************)
LeftSides == {<<>>, <<a>>, <<a, SP>>, <<a, NL>>, <<a, NL, NL, SP>>, <<NL>>}
RightSides == {<<>>, <<b>>, <<SP, b>>, <<NL, b>>, <<SP, NL, NL, b>>, <<NL>>}

JoinInit ==
    \E left \in LeftSides, right \in RightSides :
        Created(left \o Block(Annotation("a1", "y", <<a>>, <<>>)) \o right, "default")

\* removeAnnotation(id) is called and awaits vault.read
JoinRemoveCalled(id) ==
    /\ Len(calls) < MaxCalls
    /\ calls' = Append(calls, [NewCall("remove", id, NoJson, "") EXCEPT !.pc = "reading"])
    /\ UNCHANGED <<fileText, createdFrom, customAnnotationTemplate, annotationMap,
                   operationLock, settled>>
    /\ UNCHANGED viewVars

\* vault.read resolves: the map is parsed; the call returns false or goes
\* on to vault.modify(file, newContent)
JoinRemoveRead(c) ==
    /\ c <= Len(calls)
    /\ calls[c].pc = "reading"
    /\ annotationMap' = parseWithRanges(fileText)
    /\ LET map == parseWithRanges(fileText)
       IN  calls' = IF ~MapHas(map, calls[c].id)
                    THEN [calls EXCEPT ![c].pc = "done", ![c].content = fileText,
                                       ![c].result = "false", ![c].after = fileText]
                    ELSE [calls EXCEPT ![c].pc = "writing", ![c].content = fileText,
                                       ![c].modified = TRUE,
                                       ![c].updated =
                                           JoinedRemoval(fileText, MapGet(map, calls[c].id))]
    /\ UNCHANGED <<fileText, createdFrom, customAnnotationTemplate, operationLock, settled>>
    /\ UNCHANGED viewVars

\* vault.modify resolves: the map is parsed from newContent, the call
\* returns true
JoinModifyResolved(c) ==
    /\ c <= Len(calls)
    /\ calls[c].pc = "writing"
    /\ fileText' = calls[c].updated
    /\ annotationMap' = parseWithRanges(calls[c].updated)
    /\ calls' = [calls EXCEPT ![c].pc = "done", ![c].result = "true",
                              ![c].after = calls[c].updated]
    /\ UNCHANGED <<createdFrom, customAnnotationTemplate, operationLock, settled>>
    /\ UNCHANGED viewVars

JoinNext ==
    \/ \E id \in Ids : JoinRemoveCalled(id)
    \/ \E c \in 1..MaxCalls : JoinRemoveRead(c)
    \/ \E c \in 1..MaxCalls : JoinModifyResolved(c)

JoinSpec == JoinInit /\ [][JoinNext]_vars

(***************************************************************************)
(* Properties of insertion and removal                                     *)
(***************************************************************************)
\* the lexemes of s that are no white space, in order
NonWs(s) == SelectSeq(s, LAMBDA t : ~IsWs(t))

\* call c removes the id of the annotation the call before it added
AddThenRemove(c) ==
    /\ c > 1
    /\ calls[c - 1].op = "add" /\ calls[c - 1].result = "true"
    /\ calls[c].op = "remove" /\ calls[c].id = calls[c - 1].json.id
    /\ calls[c].pc = "done"

\* C11: addAnnotation(R) followed by removeAnnotation(R.id) leaves a
\* document equal to the first one up to white space, with no record of id
\* R.id, whatever the document and the insert strategy.
C11_AddRemoveInverse ==
    \A c \in Called : AddThenRemove(c) =>
        /\ NonWs(calls[c].after) = NonWs(calls[c - 1].content)
        /\ ~MapHas(parseWithRanges(calls[c].after), calls[c].id)

\* the records of the text call c read that start after the target's range
\* and carry another id, as indices of the parsed map
RecordsAfterTarget(c) ==
    LET map == parseWithRanges(calls[c].content)
    IN  {k \in 1..Len(map) :
            /\ map[k].range.start >= TargetRange(c).end
            /\ map[k].id # calls[c].id}

\* the map holds a record with the id, quote and comment of rec
SameRecordIn(map, rec) ==
    \E j \in 1..Len(map) :
        /\ map[j].id = rec.id
        /\ map[j].text = rec.text
        /\ map[j].comment = rec.comment

\* C12: updateAnnotation on the first of two adjacent records with
\* different ids leaves the id, quote and comment of the second as they
\* were when the new document is parsed again.
C12_UpdateKeepsNextRecord ==
    \A c \in Called : UpdateSucceeded(c) =>
        LET map == parseWithRanges(calls[c].content)
        IN  \A k \in RecordsAfterTarget(c) :
                SameRecordIn(parseWithRanges(calls[c].after), map[k])

\* the first of two adjacent records was updated to a block of another
\* length, and the second is parsed back at shifted offsets
C12_Witness ==
    \E c \in Called :
        /\ UpdateSucceeded(c)
        /\ LET old == parseWithRanges(calls[c].content)
               new == parseWithRanges(calls[c].after)
           IN  \E k \in RecordsAfterTarget(c), j \in 1..Len(new) :
                   /\ old[k].range.start <= TargetRange(c).end + 2
                   /\ new[j].id = old[k].id
                   /\ new[j].text = old[k].text
                   /\ new[j].comment = old[k].comment
                   /\ new[j].range.start # old[k].range.start

(***************************************************************************)
(* Properties of the ranges parseWithRanges returns                        *)
(***************************************************************************)
\* the range of rec lies within text, is not empty, and text holds rec.raw
\* there, from a BEGIN marker to an END marker
RangeCorrect(text, rec) ==
    /\ 0 <= rec.range.start
    /\ rec.range.start < rec.range.end
    /\ rec.range.end <= Len(text)
    /\ Slice(text, rec.range.start, rec.range.end) = rec.raw
    /\ IsBegin(rec.raw[1])
    /\ rec.raw[Len(rec.raw)] = END
    /\ IsBegin(text[rec.range.start + 1])
    /\ text[rec.range.end] = END

\* C13: for every record parseWithRanges returns, range.start < range.end,
\* both offsets lie within the text, and the text between them is the
\* record's raw, which starts at the BEGIN marker and ends with the END
\* marker.
C13_RangesCorrect ==
    \A c \in Called : Scanned(c) =>
        \A k \in 1..Len(annotationMap) : RangeCorrect(calls[c].content, annotationMap[k])

\* a scan returned two records with text between them and after them
C13_Witness ==
    \E c \in Called :
        /\ Scanned(c)
        /\ Len(annotationMap) = 2
        /\ annotationMap[2].range.start > annotationMap[1].range.end
        /\ annotationMap[2].range.end < Len(calls[c].content)

\* the 0-based offset of the k-th record of Chain(n, sep)
ChainStart(k, sep) == IF k = 1 THEN 0 ELSE Len(Chain(k - 1, sep)) + Len(sep)

\* C14: for a document of N well-formed records with distinct ids placed
\* one after another, back to back included, parseWithRanges returns N
\* records in document order, each from its own BEGIN to its own END, with
\* pairwise disjoint ranges.
C14_AdjacentRecordsApart ==
    \A c \in Called : Scanned(c) =>
        \A n \in ChainLengths, sep \in Separators :
            calls[c].content = Chain(n, sep) =>
                /\ Len(annotationMap) = n
                /\ \A k \in 1..n :
                      /\ annotationMap[k].id = ChainRecords[k].id
                      /\ annotationMap[k].text = ChainRecords[k].text
                      /\ annotationMap[k].comment = ChainRecords[k].comment
                      /\ annotationMap[k].range.start = ChainStart(k, sep)
                      /\ annotationMap[k].range.end = Len(Chain(k, sep))
                /\ \A j, k \in 1..n :
                      j < k => annotationMap[j].range.end <= annotationMap[k].range.start

\* a document of MaxRecords records back to back was scanned and all of
\* them were returned
C14_Witness ==
    \E c \in Called :
        /\ Scanned(c)
        /\ calls[c].content = Chain(Min(MaxRecords, Len(ChainRecords)), <<>>)
        /\ Len(annotationMap) = Min(MaxRecords, Len(ChainRecords))
        /\ annotationMap[2].range.start = annotationMap[1].range.end

(***************************************************************************)
(* Properties of removeAnnotation                                          *)
(***************************************************************************)
RemoveSucceeded(c) == calls[c].op = "remove" /\ calls[c].result = "true"

\* C15: a successful removeAnnotation deletes only the target's range and
\* white space next to it: the lexemes outside the range that are no white
\* space are all kept, in order, wherever the record stands.
C15_RemoveKeepsOtherText ==
    \A c \in Called : RemoveSucceeded(c) =>
        NonWs(calls[c].after)
            = NonWs(Slice(calls[c].content, 0, TargetRange(c).start))
              \o NonWs(SliceFrom(calls[c].content, TargetRange(c).end))

\* the two sides of the range call c removed, as the call read them
SideBefore(c) == Slice(calls[c].content, 0, TargetRange(c).start)
SideAfter(c) == SliceFrom(calls[c].content, TargetRange(c).end)

\* the sides with the white space next to the range stripped
StrippedBefore(c) == DropWhileEnd(SideBefore(c), {"nl", "sp"})
StrippedAfter(c) == DropWhileStart(SideAfter(c), {"nl", "sp"})

\* a line break stood in the white space on either side of the record
BreakAtBoundary(c) ==
    HasNL(TrailingWs(SideBefore(c))) \/ HasNL(LeadingWs(SideAfter(c)))

\* both sides have text left once the white space is stripped
SidesTouch(c) == StrippedBefore(c) # <<>> /\ StrippedAfter(c) # <<>>

\* C16, touching sides first: when both stripped sides have text exactly
\* one space is placed between them; otherwise, when a line break stood on
\* either side, exactly one blank line separates the sides.
C16_SpaceBeforeBlankLine ==
    \A c \in Called : RemoveSucceeded(c) =>
        /\ SidesTouch(c) =>
              calls[c].after = StrippedBefore(c) \o <<SP>> \o StrippedAfter(c)
        /\ (~SidesTouch(c) /\ BreakAtBoundary(c)) =>
              calls[c].after = StrippedBefore(c) \o <<NL, NL>> \o StrippedAfter(c)

\* the right side as removeAnnotation keeps it: blanks that lead up to no
\* line break stay
KeptAfter(c) ==
    IF HasNL(LeadingWs(SideAfter(c))) THEN StrippedAfter(c) ELSE SideAfter(c)

\* C16, line break first: when a line break stood on either side of the
\* record the sides are separated by exactly one blank line; otherwise,
\* when the two characters that come to touch are no white space, exactly
\* one space is placed between them, and nothing else is.
C16_BlankLineBeforeSpace ==
    \A c \in Called : RemoveSucceeded(c) =>
        calls[c].after =
            IF BreakAtBoundary(c)
            THEN StrippedBefore(c) \o <<NL, NL>> \o KeptAfter(c)
            ELSE IF SidesTouch(c) /\ ~IsWs(KeptAfter(c)[1])
                 THEN StrippedBefore(c) \o <<SP>> \o KeptAfter(c)
                 ELSE StrippedBefore(c) \o KeptAfter(c)

\* a record between two words of one line was removed and a space was put
\* in its place
C16_Witness ==
    \E c \in Called :
        /\ RemoveSucceeded(c)
        /\ ~BreakAtBoundary(c)
        /\ calls[c].content = <<a>> \o Block(Annotation("a1", "y", <<a>>, <<>>)) \o <<b>>
        /\ calls[c].after = <<a, SP, b>>

(***************************************************************************)
(* Properties of insertByStrategy                                          *)
(***************************************************************************)
\* C17: addAnnotation with the document-end strategy on an empty document
\* writes exactly the rendered block, with nothing before its BEGIN marker.
C17_AddToEmptyIsBlock ==
    \A c \in Called :
        (Added(c) /\ calls[c].where = "end" /\ calls[c].content = <<>>) =>
            calls[c].after = Block(calls[c].json)

\* the text holds the block at 0-based offset p
BlockAt(text, p, block) == Slice(text, p, p + Len(block)) = block

Holds(text, block) == \E p \in 0..Len(text) : BlockAt(text, p, block)

\* at offset p the block has exactly one blank line between it and the
\* text before it, and between it and the text after it
OneBlankLineAround(text, p, block) ==
    LET q == p + Len(block)
    IN  /\ p >= 2 /\ text[p] = NL /\ text[p - 1] = NL
        /\ p >= 3 => text[p - 2] # NL
        /\ q < Len(text) =>
              /\ q + 3 <= Len(text)
              /\ text[q + 1] = NL /\ text[q + 2] = NL
              /\ text[q + 3] # NL

\* call c added a block, which the non-empty text it read did not hold
AddedNewBlock(c) ==
    /\ Added(c)
    /\ calls[c].content # <<>>
    /\ ~Holds(calls[c].content, Block(calls[c].json))

\* C18: with every insert strategy and every non-empty document, whatever
\* the number of blank lines at the insertion point, the inserted block is
\* separated from the text next to it by exactly one blank line.
C18_OneBlankLineAroundInsert ==
    \A c \in Called : AddedNewBlock(c) =>
        \E p \in 0..Len(calls[c].after) :
            /\ BlockAt(calls[c].after, p, Block(calls[c].json))
            /\ OneBlankLineAround(calls[c].after, p, Block(calls[c].json))

\* a block was added before a sentinel that had several blank lines before
\* it and text after it
C18_Witness ==
    \E c \in Called :
        /\ AddedNewBlock(c)
        /\ calls[c].where = "annotation-blocks"
        /\ calls[c].content = <<a, NL, BLOCKS_BEGIN, NL, NL, NL, BLOCKS_END, NL, b, NL>>
        /\ calls[c].after = <<a, NL, BLOCKS_BEGIN, NL, NL>> \o Block(calls[c].json)
                              \o <<NL, NL, BLOCKS_END, NL, b, NL>>

\* 0-based offsets of the BLOCKS_END sentinels of a text
SentinelOffsets(text) == {i - 1 : i \in {j \in 1..Len(text) : text[j] = BLOCKS_END}}

\* the block stands in new right before the text that content holds from
\* its first sentinel on, a blank line apart, and that text is unchanged
PlacedBeforeFirstSentinel(content, new, block) ==
    LET i == SetMin(SentinelOffsets(content))
        kept == SliceFrom(content, i)
        at == Len(new) - Len(kept)
    IN  /\ at >= Len(block) + 2
        /\ SliceFrom(new, at) = kept
        /\ Slice(new, at - 2, at) = <<NL, NL>>
        /\ BlockAt(new, at - 2 - Len(block), block)
        /\ SentinelOffsets(Slice(new, 0, at)) = {}

\* C19: with the annotation-blocks strategy the new block is placed right
\* before the first BLOCKS_END sentinel and the text from the sentinel on
\* is unchanged; with no sentinel the result is that of the document-end
\* strategy.
C19_InsertBeforeSentinel ==
    \A c \in Called : (Added(c) /\ calls[c].where = "annotation-blocks") =>
        IF SentinelOffsets(calls[c].content) # {}
        THEN PlacedBeforeFirstSentinel(calls[c].content, calls[c].after, Block(calls[c].json))
        ELSE calls[c].after = insertByStrategy(calls[c].content, Block(calls[c].json), "end")

\* a block was added to a document that holds two sentinels
C19_Witness ==
    \E c \in Called :
        /\ Added(c) /\ calls[c].where = "annotation-blocks"
        /\ Cardinality(SentinelOffsets(calls[c].content)) = 2
        /\ PlacedBeforeFirstSentinel(calls[c].content, calls[c].after, Block(calls[c].json))

(***************************************************************************)
(* Record identity of the first parser (computeAnnotationId): the          *)
(* payload's own id, trimmed, or the FNV-1a hash of the record's text.     *)
(* A string is a TLA+ string; the hash runs over its UTF-16 code units.    *)
(* A 32-bit word is kept as two 16-bit halves [hi, lo].                    *)
(***************************************************************************)
\* the ASCII characters of codes 32..95 and of codes 97..126, in code order
AsciiTo95 ==
    " !\"#$%&'()*+,-./0123456789:;<=>?@ABCDEFGHIJKLMNOPQRSTUVWXYZ[\\]^_"
AsciiFrom97 == "abcdefghijklmnopqrstuvwxyz{|}~"

IndexIn(table, ch) == CHOOSE i \in 1..Len(table) : SubSeq(table, i, i) = ch
InTable(table, ch) == \E i \in 1..Len(table) : SubSeq(table, i, i) = ch

\* input.charCodeAt(i) of a one-character string
charCodeAt(ch) ==
    IF ch = "\n" THEN 10
    ELSE IF ch = "\t" THEN 9
    ELSE IF InTable(AsciiTo95, ch) THEN 31 + IndexIn(AsciiTo95, ch)
    ELSE 96 + IndexIn(AsciiFrom97, ch)

\* the code units of a string
StringCodes(s) == [i \in 1..Len(s) |-> charCodeAt(SubSeq(s, i, i))]

\* String.prototype.trim
IsSpaceChar(ch) == ch \in {" ", "\t", "\n"}
RECURSIVE trimStart(_)
trimStart(s) ==
    IF Len(s) > 0 /\ IsSpaceChar(SubSeq(s, 1, 1))
    THEN trimStart(SubSeq(s, 2, Len(s))) ELSE s
RECURSIVE trimEnd(_)
trimEnd(s) ==
    IF Len(s) > 0 /\ IsSpaceChar(SubSeq(s, Len(s), Len(s)))
    THEN trimEnd(SubSeq(s, 1, Len(s) - 1)) ELSE s
trim(s) == trimEnd(trimStart(s))

\* the text of one lexeme of a quote or comment
LexemeString(t) ==
    CASE t.k = "nl" -> "\n"
      [] t.k = "sp" -> " "
      [] t.k = "gt" -> ">"
      [] t.k = "ch" -> t.c
      [] t.k = "mark" -> "%% OZRP-ANNO-" \o t.m \o " %%"
      [] OTHER -> ""

RECURSIVE TextString(_)
TextString(text) ==
    IF text = <<>> THEN "" ELSE LexemeString(text[1]) \o TextString(Tail(text))

\* a string inside JSON text: a line break is written as the escape \n
RECURSIVE JsonEscape(_)
JsonEscape(s) ==
    IF Len(s) = 0 THEN ""
    ELSE (IF SubSeq(s, 1, 1) = "\n" THEN "\\n" ELSE SubSeq(s, 1, 1))
         \o JsonEscape(SubSeq(s, 2, Len(s)))

\* the text JSON.stringify(json) writes: the fields in their own order, a
\* payload without an id field writes none
JSONstringifyText(json) ==
    "{" \o (IF json.id = NoId THEN "" ELSE "\"id\":\"" \o JsonEscape(json.id) \o "\",")
        \o "\"color\":\"" \o json.color
        \o "\",\"text\":\"" \o JsonEscape(TextString(json.text))
        \o "\",\"comment\":\"" \o JsonEscape(TextString(json.comment)) \o "\"}"

Word16 == 65536
\* x ^ y on 16-bit halves, bit by bit
XorBit(x, y, p) == p * (((x \div p) + (y \div p)) % 2)
Xor(x, y) ==
    XorBit(x, y, 1) + XorBit(x, y, 2) + XorBit(x, y, 4) + XorBit(x, y, 8)
    + XorBit(x, y, 16) + XorBit(x, y, 32) + XorBit(x, y, 64) + XorBit(x, y, 128)
    + XorBit(x, y, 256) + XorBit(x, y, 512) + XorBit(x, y, 1024) + XorBit(x, y, 2048)
    + XorBit(x, y, 4096) + XorBit(x, y, 8192) + XorBit(x, y, 16384) + XorBit(x, y, 32768)

\* 0x811c9dc5, the FNV offset basis
FnvOffsetHi == 33052
FnvOffsetLo == 40389
\* 0x01000193, the 32-bit FNV prime 16777619
FnvPrimeHi == 256
FnvPrimeLo == 403
\* U+241E, the separator of the hashed fields
RecordSeparator == 9246

\* h ^= code; h = Math.imul(h, 0x01000193) >>> 0
FnvStep(h, code) ==
    LET lo == Xor(h.lo, code % Word16)
        low == lo * FnvPrimeLo
    IN  [lo |-> low % Word16,
         hi |-> (h.hi * FnvPrimeLo + lo * FnvPrimeHi + (low \div Word16)) % Word16]

\* an unsigned 32-bit word (>>> 0)
IsWord32(h) == h.hi \in 0..(Word16 - 1) /\ h.lo \in 0..(Word16 - 1)

RECURSIVE FnvLoop(_, _, _)
FnvLoop(codes, i, h) ==
    IF i > Len(codes) \/ ~IsWord32(h) THEN h
    ELSE FnvLoop(codes, i + 1, FnvStep(h, codes[i]))

HexDigits == "0123456789abcdef"
HexDigit(d) == SubSeq(HexDigits, d + 1, d + 1)
Hex4(n) ==
    HexDigit(n \div 4096) \o HexDigit((n \div 256) % 16)
        \o HexDigit((n \div 16) % 16) \o HexDigit(n % 16)

\* fnv1aHex over the code units of its input: ("00000000" + h.toString(16)).slice(-8)
fnv1aHex(codes) ==
    LET h == FnvLoop(codes, 1, [hi |-> FnvOffsetHi, lo |-> FnvOffsetLo])
    IN  Hex4(h.hi) \o Hex4(h.lo)

\* computeAnnotationId(json, text, comment); NoId is a payload with no
\* string in its id field
computeAnnotationId(json, text, comment) ==
    LET candidate == json.id
    IN  IF candidate # NoId /\ trim(candidate) # ""
        THEN trim(candidate)
        ELSE fnv1aHex(StringCodes(JSONstringifyText(json)) \o <<RecordSeparator>>
                      \o StringCodes(TextString(text)) \o <<RecordSeparator>>
                      \o StringCodes(TextString(comment)))

\* C20: the id of every parsed record is the payload's id field, trimmed,
\* when that field is a non-empty string, and otherwise the 8-hex-digit
\* 32-bit FNV-1a hash of payload JSON, separator, quote, separator, comment.
C20_IdTrimmedOrHashed ==
    \A k \in 1..Len(annotationMap) :
        annotationMap[k].id = computeAnnotationId(annotationMap[k].json,
                                                  annotationMap[k].text,
                                                  annotationMap[k].comment)

(***************************************************************************)
(* Parser and validator over the same spans                                *)
(***************************************************************************)
\* the BEGIN..END spans the scanner's loop visits, in document order, each
\* with the record parseWithRanges builds for it
RECURSIVE SpanLoop(_, _, _)
SpanLoop(content, lastIndex, out) ==
    LET match == SectionExec(content, lastIndex)
    IN  IF ~match.found THEN out
        ELSE IF SectionEndExec(content, match.bodyEnd) = -1
             THEN SpanLoop(content, match.bodyEnd, out)
        ELSE SpanLoop(content, match.bodyEnd,
                      Append(out, [range |-> [start |-> match.index,
                                              end |-> SectionEndExec(content, match.bodyEnd) + 1],
                                   parsed |-> SectionRecord(content, match)]))

MatchedSpans(content) == SpanLoop(content, 0, <<>>)

ReturnedFor(content, span) ==
    LET map == parseWithRanges(content)
    IN  \E k \in 1..Len(map) : map[k].range = span.range

DiagnosedFor(content, span) ==
    LET issues == validateFileAnnotations(content)
    IN  \E i \in 1..Len(issues) :
            /\ issues[i].range = span.range
            /\ issues[i].hint # ""

\* a later span that parses to a record of the same id
ReplacedLater(spans, n) ==
    \E m \in (n + 1)..Len(spans) :
        /\ spans[m].parsed.ok
        /\ spans[m].parsed.rec.id = spans[n].parsed.rec.id

\* C21 (as stated): for every matched BEGIN..END span, parseWithRanges
\* returns a record for the span if and only if validateFileAnnotations
\* reports no diagnostic for it, and every dropped span has a diagnostic
\* that carries the span's range and a hint.
C21_RecordIffNoDiagnostic ==
    LET spans == MatchedSpans(fileText)
    IN  \A n \in 1..Len(spans) :
            ReturnedFor(fileText, spans[n]) <=> ~DiagnosedFor(fileText, spans[n])

\* C21 (amended): for every matched BEGIN..END span, validateFileAnnotations
\* reports a diagnostic with the span's range and a hint if and only if the
\* span does not parse to a record; parseWithRanges returns the record of a
\* span that parses unless a later span parses to a record of the same id.
C21_RecordIffNoDiagnosticOrReplaced ==
    LET spans == MatchedSpans(fileText)
    IN  \A n \in 1..Len(spans) :
            /\ DiagnosedFor(fileText, spans[n]) <=> ~spans[n].parsed.ok
            /\ ReturnedFor(fileText, spans[n])
                   <=> (spans[n].parsed.ok /\ ~ReplacedLater(spans, n))

\* a document whose first span is dropped and diagnosed and whose second
\* span is returned
C21_Witness ==
    LET spans == MatchedSpans(fileText)
    IN  /\ Len(spans) = 2
        /\ ~spans[1].parsed.ok /\ DiagnosedFor(fileText, spans[1])
        /\ spans[2].parsed.ok /\ ReturnedFor(fileText, spans[2])

(***************************************************************************)
(* Documents with two spans of one id, and updates and removals on them    *)
(***************************************************************************)
DuplicateDocuments ==
    {left \o Block(Annotation("a1", "y", <<a>>, <<>>)) \o sep
          \o Block(Annotation("a1", "r", <<b>>, <<b>>)) \o right :
        left \in {<<>>, <<a, NL>>}, sep \in Separators, right \in {<<>>, <<NL, b>>}}

DuplicateInit == \E content \in DuplicateDocuments : Created(content, "default")

DuplicateNext ==
    \/ \E in \in UpdateInputs : updateAnnotation(in[1], in[2])
    \/ \E id \in Ids : removeAnnotation(id)
    \/ \E c \in 1..MaxCalls : LockAcquired(c)
    \/ \E c \in 1..MaxCalls : UpdateRead(c)
    \/ \E c \in 1..MaxCalls : RemoveRead(c)
    \/ \E c \in 1..MaxCalls : ModifyResolved(c)

DuplicateSpec == DuplicateInit /\ [][DuplicateNext]_vars

\* the spans of the text that parse to a record of the id
SpansOf(content, id) ==
    LET spans == MatchedSpans(content)
    IN  {n \in 1..Len(spans) : spans[n].parsed.ok /\ spans[n].parsed.rec.id = id}

LastOf(ns) == CHOOSE n \in ns : \A m \in ns : m <= n

\* the map holds one entry for the id, the record of its last span
LaterSpanReturned(content, id) ==
    LET spans == MatchedSpans(content)
        map == parseWithRanges(content)
    IN  /\ Cardinality({k \in 1..Len(map) : map[k].id = id}) = 1
        /\ MapGet(map, id).range = spans[LastOf(SpansOf(content, id))].range

\* every span of the id before the last one holds the same text, at the
\* same offsets, after the call as before
EarlierSpansKept(c) ==
    LET spans == MatchedSpans(calls[c].content)
        ns == SpansOf(calls[c].content, calls[c].id)
    IN  \A n \in ns \ {LastOf(ns)} :
            Slice(calls[c].after, spans[n].range.start, spans[n].range.end)
                = Slice(calls[c].content, spans[n].range.start, spans[n].range.end)

\* C22: when two spans resolve to one id, parseWithRanges returns a single
\* entry for the id, the later span, and a completed updateAnnotation or
\* removeAnnotation on the id leaves the earlier span's text unchanged.
C22_LaterSpanWins ==
    /\ \A id \in Ids :
           Cardinality(SpansOf(fileText, id)) >= 2 => LaterSpanReturned(fileText, id)
    /\ \A c \in 1..Len(calls) :
           (/\ calls[c].pc = "done" /\ calls[c].result = "true"
            /\ calls[c].op \in {"update", "remove"}
            /\ Cardinality(SpansOf(calls[c].content, calls[c].id)) >= 2)
               => EarlierSpansKept(c)

\* the block a completed call rendered
Rendered(c) == buildAnnotationSection(calls[c].json, customAnnotationTemplate).text

EndsWith(s, tail) ==
    /\ Len(s) >= Len(tail)
    /\ SubSeq(s, Len(s) - Len(tail) + 1, Len(s)) = tail

\* C23: the block addAnnotation renders starts with no whitespace and ends
\* with the END marker and exactly one line break; the block
\* updateAnnotation renders starts with no whitespace and ends with the END
\* marker and no line break.
C23_BlockTerminator ==
    \A c \in 1..Len(calls) :
        (calls[c].pc = "done" /\ calls[c].result = "true"
         /\ calls[c].op \in {"add", "update"})
            => /\ ~IsWs(Rendered(c)[1])
               /\ IF calls[c].op = "add"
                  THEN /\ EndsWith(Rendered(c), <<END, NL>>)
                       /\ (calls[c].where = "end"
                               => EndsWith(calls[c].after, <<END, NL>>))
                  ELSE EndsWith(Rendered(c), <<END>>)

(***************************************************************************)
(* updateAllAnnotationsToLatestTemplate, run alone on a document.  The run *)
(* is the first entry of calls; the updateAnnotation calls it makes and    *)
(* awaits one after another follow it.                                     *)
(***************************************************************************)
\* a block written by an earlier template: a one-line comment block
OlderBlock(json) ==
    <<Begin(JSONstringify(Payload(json))), NL,
      GT, SP, Hdr, NL,
      GT, SP, Q_BEGIN, NL,
      GT, SP, GT, SP>> \o json.text \o <<NL,
      GT, SP, Q_END, NL,
      GT, SP, NL,
      GT, SP, C_BEGIN, SP>> \o json.comment \o <<NL,
      GT, SP, C_END, Anchor(json.id), NL,
      NL, END>>

\* documents whose records have distinct ids: records one after another,
\* blocks of an earlier template between prose, a record behind a BEGIN line
\* with no END of its own, a record whose id has blanks around it
UpdateAllDocuments ==
    AdjacentDocuments
    \cup {<<a, NL>> \o OlderBlock(ChainRecords[2]) \o <<NL, NL, b, NL>>
              \o OlderBlock(ChainRecords[1]) \o <<NL>>,
          OlderBlock(ChainRecords[3]) \o Block(ChainRecords[5]),
          OlderBlock(ChainRecords[3]) \o <<NL>> \o OlderBlock(ChainRecords[1])
              \o <<NL, NL>> \o Block(ChainRecords[2]) \o <<NL, a>>,
          OlderBlock(ChainRecords[4]) \o <<NL, b, SP, a, NL>>,
          Prose \o DanglingPiece \o WellFormedPiece(ChainRecords[1]),
          UntrimmedIdPiece \o Prose \o WellFormedPiece(ChainRecords[1]),
          <<a, NL, BLOCKS_BEGIN, NL, BLOCKS_END, NL>>}

UpdateAllInit ==
    \/ \E content \in UpdateAllDocuments : Created(content, "default")
    \/ \E content \in BrokenTemplateDocuments : Created(content, "broken")

\* the patch the loop passes for one entry of the map
RewriteJsonFromPayload(annotation) == annotation.json

RewriteJson(annotation) ==
    [annotation.json EXCEPT !.text = annotation.text, !.comment = annotation.comment]

\* updateAllAnnotationsToLatestTemplate() is called and awaits vault.read
updateAllAnnotationsToLatestTemplate ==
    /\ calls = <<>>
    /\ calls' = <<[op |-> "updateAll", pc |-> "readingAll", content |-> <<>>,
                   annotations |-> <<>>, next |-> 1, updatedCount |-> 0,
                   result |-> "pending"]>>
    /\ UNCHANGED <<fileText, createdFrom, customAnnotationTemplate, annotationMap,
                   operationLock, settled>>
    /\ UNCHANGED viewVars

\* vault.read resolves: the map is parsed and the loop starts over its
\* entries
UpdateAllRead ==
    /\ calls # <<>> /\ calls[1].pc = "readingAll"
    /\ annotationMap' = parseWithRanges(fileText)
    /\ calls' = [calls EXCEPT ![1].pc = "loop", ![1].content = fileText,
                              ![1].annotations = parseWithRanges(fileText)]
    /\ UNCHANGED <<fileText, createdFrom, customAnnotationTemplate, operationLock, settled>>
    /\ UNCHANGED viewVars

\* the loop calls updateAnnotation for its next entry and awaits it
UpdateAllNext ==
    /\ calls # <<>> /\ calls[1].pc = "loop"
    /\ calls[1].next <= Len(calls[1].annotations)
    /\ LET annotation == calls[1].annotations[calls[1].next]
       IN  calls' = Append([calls EXCEPT ![1].pc = "awaiting"],
                           NewCall("update", annotation.id, RewriteJson(annotation), ""))
    /\ operationLock' = Len(calls) + 1
    /\ UNCHANGED <<fileText, createdFrom, customAnnotationTemplate, annotationMap, settled>>
    /\ UNCHANGED viewVars

\* the awaited updateAnnotation has returned: the loop counts a success; or
\* it has thrown, and the run throws
UpdateAllResumed ==
    /\ calls # <<>> /\ calls[1].pc = "awaiting"
    /\ calls[Len(calls)].pc = "done"
    /\ calls' = IF calls[Len(calls)].result = "threw"
                THEN [calls EXCEPT ![1].pc = "doneAll", ![1].result = "threw"]
                ELSE [calls EXCEPT ![1].pc = "loop", ![1].next = @ + 1,
                                   ![1].updatedCount =
                                       IF calls[Len(calls)].result = "true" THEN @ + 1 ELSE @]
    /\ UNCHANGED <<fileText, createdFrom, customAnnotationTemplate, annotationMap,
                   operationLock, settled>>
    /\ UNCHANGED viewVars

\* the loop is over: the run returns updatedCount
UpdateAllReturned ==
    /\ calls # <<>> /\ calls[1].pc = "loop"
    /\ calls[1].next > Len(calls[1].annotations)
    /\ calls' = [calls EXCEPT ![1].pc = "doneAll", ![1].result = "returned"]
    /\ UNCHANGED <<fileText, createdFrom, customAnnotationTemplate, annotationMap,
                   operationLock, settled>>
    /\ UNCHANGED viewVars

\* the run and the calls it makes
MaxUpdateAllCalls == MaxRecords + 1

UpdateAllSpecNext ==
    \/ updateAllAnnotationsToLatestTemplate
    \/ UpdateAllRead
    \/ UpdateAllNext
    \/ UpdateAllResumed
    \/ UpdateAllReturned
    \/ \E c \in 2..MaxUpdateAllCalls : LockAcquired(c)
    \/ \E c \in 2..MaxUpdateAllCalls : UpdateRead(c)
    \/ \E c \in 2..MaxUpdateAllCalls : ModifyResolved(c)

UpdateAllSpec == UpdateAllInit /\ [][UpdateAllSpecNext]_vars

UpdateAllReturnedRun == calls # <<>> /\ calls[1].pc = "doneAll" /\ calls[1].result = "returned"

\* the records of two maps carry the same ids, each with the same quote and
\* comment
SameRecords(before, after) ==
    /\ MapKeys(before) = MapKeys(after)
    /\ \A k \in 1..Len(before) :
           /\ MapGet(after, before[k].id).text = before[k].text
           /\ MapGet(after, before[k].id).comment = before[k].comment

CompletesTrue(c) ==
    /\ c <= Len(calls)
    /\ calls[c].pc # "done"
    /\ calls'[c].pc = "done" /\ calls'[c].result = "true"
    /\ calls[c].op \in {"add", "update", "remove"}

\* C25: when addAnnotation, updateAnnotation or removeAnnotation completes
\* and returns true, the document holds the text the operation wrote and
\* the cached annotationMap is parseWithRanges of that text.
C25_MapFromWrittenText ==
    [][\A c \in 1..MaxCalls :
           CompletesTrue(c)
               => /\ fileText' = calls[c].updated
                  /\ annotationMap' = parseWithRanges(calls[c].updated)]_vars

\* an update has just returned true after writing a text whose records
\* differ from those of the text it read
C25_Witness ==
    \E c \in 1..Len(calls) :
        /\ calls[c].pc = "done" /\ calls[c].result = "true" /\ calls[c].op = "update"
        /\ c = Len(calls)
        /\ fileText = calls[c].updated
        /\ parseWithRanges(calls[c].updated) # parseWithRanges(calls[c].content)
        /\ annotationMap = parseWithRanges(calls[c].updated)

(***************************************************************************)
(* ZoteroReaderView: the handlers of the reader's annotationsSaved and     *)
(* annotationsDeleted events.  An event is delivered as a task of its own; *)
(* its handler runs up to its first await and goes on, once the operation  *)
(* it awaits has returned, before the next event is delivered.             *)
(***************************************************************************)
MaxEvents == 2

\* the annotation lists and id lists the reader reports
SavedEvents ==
    {<<Annotation("a1", "y", <<a>>, <<>>)>>,
     <<Annotation("a2", "y", <<b>>, <<a>>), Annotation("a1", "y", <<a>>, <<>>)>>,
     <<Annotation("a1", "r", <<a, NL, b>>, <<b>>)>>}
DeletedEvents == {<<"a1">>, <<"a2", "a1">>}

\* the notes the view is opened on
ViewDocuments ==
    {<<a, NL, BLOCKS_BEGIN, NL, BLOCKS_END, NL>>,
     <<a, NL, BLOCKS_BEGIN, NL, NL>> \o Block(Annotation("a2", "y", <<b>>, <<a>>))
        \o <<NL, NL, BLOCKS_END, NL>>}

ViewInit == \E content \in ViewDocuments : Created(content, "default")

\* the operations a handler makes, in order: handleAnnotationsSaved adds the
\* annotations whose id the cached map lacks, then updates the others;
\* handleAnnotationsDeleted removes each id
SavedWork(annotations, map) ==
    LET IsCreate(item) == ~MapHas(map, item.id)
        IsUpdate(item) == MapHas(map, item.id)
        create == SelectSeq(annotations, IsCreate)
        update == SelectSeq(annotations, IsUpdate)
    IN  [k \in 1..Len(create) |-> [op |-> "add", id |-> create[k].id, json |-> create[k]]]
        \o [k \in 1..Len(update) |-> [op |-> "update", id |-> update[k].id, json |-> update[k]]]

DeletedWork(ids) == [k \in 1..Len(ids) |-> [op |-> "remove", id |-> ids[k], json |-> NoJson]]

\* a handler whose awaited operation has returned and that has not gone on
Resumable(h) ==
    /\ handlers[h].pc = "await"
    /\ calls[handlers[h].awaits].pc = "done"

\* the handler calls the operation of its next work item and awaits it, or
\* returns when none is left
HandlerStep(hs, h) ==
    IF hs[h].next > Len(hs[h].work)
    THEN /\ handlers' = [hs EXCEPT ![h].pc = "done"]
         /\ UNCHANGED <<calls, operationLock>>
    ELSE LET item == hs[h].work[hs[h].next]
         IN  /\ calls' = Append(calls, NewCall(item.op, item.id, item.json,
                                               IF item.op = "add" THEN "annotation-blocks" ELSE ""))
             /\ operationLock' = Len(calls) + 1
             /\ handlers' = [hs EXCEPT ![h].pc = "await", ![h].awaits = Len(calls) + 1,
                                       ![h].next = @ + 1]

NewHandler(kind, reported, work) ==
    [kind |-> kind, reported |-> reported, work |-> work, next |-> 1,
     pc |-> "run", awaits |-> 0]

EventDeliverable ==
    /\ Len(handlers) < MaxEvents
    /\ \A h \in 1..Len(handlers) : ~Resumable(h)

\* the annotationsSaved event: handleAnnotationsSaved(evt.annotations)
handleAnnotationsSaved(annotations) ==
    /\ EventDeliverable
    /\ HandlerStep(Append(handlers,
                          NewHandler("saved", {annotations[k].id : k \in 1..Len(annotations)},
                                     SavedWork(annotations, annotationMap))),
                   Len(handlers) + 1)
    /\ UNCHANGED <<fileText, createdFrom, customAnnotationTemplate, annotationMap,
                   settled, bridge>>

\* the annotationsDeleted event: handleAnnotationsDeleted(evt.ids)
handleAnnotationsDeleted(ids) ==
    /\ EventDeliverable
    /\ HandlerStep(Append(handlers,
                          NewHandler("deleted", {ids[k] : k \in 1..Len(ids)},
                                     DeletedWork(ids))),
                   Len(handlers) + 1)
    /\ UNCHANGED <<fileText, createdFrom, customAnnotationTemplate, annotationMap,
                   settled, bridge>>

\* the awaited operation has returned: the handler goes on
HandlerResumed(h) ==
    /\ h <= Len(handlers)
    /\ Resumable(h)
    /\ HandlerStep(handlers, h)
    /\ UNCHANGED <<fileText, createdFrom, customAnnotationTemplate, annotationMap,
                   settled, bridge>>

MaxViewCalls == 2 * MaxEvents

ViewNext ==
    \/ \E annotations \in SavedEvents : handleAnnotationsSaved(annotations)
    \/ \E ids \in DeletedEvents : handleAnnotationsDeleted(ids)
    \/ \E h \in 1..MaxEvents : HandlerResumed(h)
    \/ \E c \in 1..MaxViewCalls : LockAcquired(c)
    \/ \E c \in 1..MaxViewCalls : AddRead(c)
    \/ \E c \in 1..MaxViewCalls : UpdateRead(c)
    \/ \E c \in 1..MaxViewCalls : RemoveRead(c)
    \/ \E c \in 1..MaxViewCalls : ModifyResolved(c)

ViewSpec == ViewInit /\ [][ViewNext]_vars

AllHandlersDone == \A h \in 1..Len(handlers) : handlers[h].pc = "done"

\* C26: once the handlers of the annotationsSaved events delivered have
\* finished, the document holds at most one record for each id they
\* reported.
C26_OneRecordPerSavedId ==
    AllHandlersDone
        => \A h \in 1..Len(handlers) :
               handlers[h].kind = "saved"
                   => \A id \in handlers[h].reported :
                          Cardinality(SpansOf(fileText, id)) <= 1

\* C27: when an annotationsSaved event reports an id, a later
\* annotationsDeleted event reports the same id, no event after it saves
\* the id again and all handlers have finished, the document holds no
\* record with that id.
C27_DeletedAfterSavedIsGone ==
    AllHandlersDone
        => \A s \in 1..Len(handlers), d \in 1..Len(handlers), id \in Ids :
               (/\ s < d
                /\ handlers[s].kind = "saved" /\ id \in handlers[s].reported
                /\ handlers[d].kind = "deleted" /\ id \in handlers[d].reported
                /\ \A e \in (d + 1)..Len(handlers) :
                       ~(handlers[e].kind = "saved" /\ id \in handlers[e].reported))
                   => SpansOf(fileText, id) = {}


\* ------------------------------------------------------------------------
\* The bridge (IframeReaderBridge): connect, the child's shakehand and
\* register, the queue, dispose and reconnect. The desktop platform is
\* modelled (Platform.isAndroidApp false), so connect() does not await
\* before the connection promise.

MaxConnects == 2
MaxBridgeCalls == 2

\* the variables the bridge's operations leave alone
managerVars == <<fileText, createdFrom, customAnnotationTemplate,
                 annotationMap, operationLock, settled, calls, handlers>>

BridgeInit == \E content \in ViewDocuments : Created(content, "default")

\* await this.child!.method(arg): the call throws a TypeError when child is
\* undefined, and is made on the current child otherwise
Invoke(br, task) ==
    IF br.child = 0
        THEN br
        ELSE [br EXCEPT !.childCalls =
                 Append(@, [method |-> task.method, arg |-> task.arg,
                            child |-> br.child])]

\* enqueueOrRun(fn) for the k-th call made: run at once when ready, pushed
\* on the queue when connecting, rejected otherwise
enqueueOrRun(br, task) ==
    IF br.state = "ready"
        THEN [Invoke(br, task) EXCEPT
                 !.issued = Append(@, [method |-> task.method, outcome |-> "ran"])]
        ELSE IF br.state = "connecting"
            THEN [br EXCEPT
                     !.queue = Append(@, task),
                     !.issued = Append(@, [method |-> task.method,
                                           outcome |-> "queued"])]
            ELSE [br EXCEPT
                     !.issued = Append(@, [method |-> task.method,
                                           outcome |-> "rejected"])]

\* connect() up to its first await: nothing when the state is neither idle
\* nor disposed; otherwise connecting, with a new iframe and a new
\* connection whose promise is awaited
ConnectCalled(br) ==
    IF br.state # "idle" /\ br.state # "disposed"
        THEN [br EXCEPT !.disposed = FALSE]
        ELSE [br EXCEPT
                 !.state = "connecting",
                 !.connects = @ + 1,
                 !.iframe = br.connects + 1,
                 !.procs = Append(@, "awaitConn"),
                 !.childPc = Append(@, "loading"),
                 !.drain = Append(@, <<>>),
                 !.disposed = FALSE]

\* dispose(): nothing when disposed; otherwise child undefined, iframe
\* removed and null, state disposed. The queue and the token are kept.
DisposeCalled(br) ==
    IF br.state = "disposed"
        THEN br
        ELSE [br EXCEPT
                 !.state = "disposed",
                 !.child = 0,
                 !.iframe = 0,
                 !.disposed = TRUE]

Starts(br) == br.state = "idle" \/ br.state = "disposed"

connect ==
    /\ Starts(bridge) => bridge.connects < MaxConnects
    /\ bridge' = ConnectCalled(bridge)
    /\ UNCHANGED managerVars

dispose ==
    /\ bridge.state # "disposed"
    /\ bridge' = DisposeCalled(bridge)
    /\ UNCHANGED managerVars

\* reconnect(): await this.dispose(false); return this.connect()
reconnect ==
    /\ bridge.connects < MaxConnects
    /\ bridge' = ConnectCalled(DisposeCalled(bridge))
    /\ UNCHANGED managerVars

\* iframe.onload of the current iframe: when ready with reader options, a
\* reconnect is scheduled with setTimeout
IframeReloaded ==
    /\ bridge.iframe # 0
    /\ bridge.state = "ready" /\ bridge.readerOpts # NoOpts
    /\ ~bridge.reloadTimer
    /\ bridge' = [bridge EXCEPT !.reloadTimer = TRUE]
    /\ UNCHANGED managerVars

\* the timer of iframe.onload fires: this.reconnect()
ReloadTimerFired ==
    /\ bridge.reloadTimer
    /\ bridge.connects < MaxConnects
    /\ bridge' = [ConnectCalled(DisposeCalled(bridge)) EXCEPT
                     !.reloadTimer = FALSE]
    /\ UNCHANGED managerVars

\* the child in iframe n completes the connection: conn.promise resolves and
\* the n-th connect() goes on to wait for the state ready
ChildConnected(n) ==
    /\ n <= bridge.connects
    /\ bridge.childPc[n] = "loading"
    /\ bridge.iframe = n
    /\ bridge' = [bridge EXCEPT
                     !.childPc[n] = "connected",
                     !.procs[n] = IF @ = "awaitConn" THEN "awaitReady" ELSE @]
    /\ UNCHANGED managerVars

\* the message shakehand of child n is delivered while its iframe is
\* attached: a new token, and the bridge with register on its window
ChildShakehand(n) ==
    /\ n <= bridge.connects
    /\ bridge.childPc[n] = "connected"
    /\ bridge.iframe = n
    /\ bridge' = [bridge EXCEPT !.token = n, !.childPc[n] = "bridged"]
    /\ UNCHANGED managerVars

\* child n calls register(childAPI, t) with the token it was given: a
\* mismatch throws; otherwise child and state are set, the queue is emptied
\* and its first task is run
ChildRegister(n) ==
    /\ n <= bridge.connects
    /\ bridge.childPc[n] = "bridged"
    /\ IF n # bridge.token
           THEN bridge' = [bridge EXCEPT !.childPc[n] = "rejected"]
           ELSE LET registered == [bridge EXCEPT
                                      !.child = n,
                                      !.state = "ready",
                                      !.queue = <<>>,
                                      !.childPc[n] = "registered"]
                    tasks == bridge.queue
                IN  bridge' =
                        IF tasks = <<>>
                            THEN registered
                            ELSE [Invoke(registered, Head(tasks)) EXCEPT
                                     !.drain[n] = Tail(tasks)]
    /\ UNCHANGED managerVars

\* for (const t of tasks) await t(): the task awaited has finished and the
\* next one is run; it throws when child is undefined, which ends the loop
DrainStep(n) ==
    /\ n <= bridge.connects
    /\ bridge.drain[n] # <<>>
    /\ bridge' =
           IF bridge.child = 0
               THEN [bridge EXCEPT !.drain[n] = <<>>]
               ELSE [Invoke(bridge, Head(bridge.drain[n])) EXCEPT
                        !.drain[n] = Tail(@)]
    /\ UNCHANGED managerVars

\* the poll of the n-th connect() sees the state ready: with reader
\* options stored, child.initReader(_readerOpts) is called
ConnectReady(n) ==
    /\ n <= bridge.connects
    /\ bridge.procs[n] = "awaitReady"
    /\ bridge.state = "ready"
    /\ bridge' =
           [(IF bridge.readerOpts # NoOpts
                 THEN Invoke(bridge, [method |-> "initReader",
                                      arg |-> bridge.readerOpts])
                 ELSE bridge)
            EXCEPT !.procs[n] = "done"]
    /\ UNCHANGED managerVars

\* "Child connect timeout" rejects either race of the n-th connect()
ConnectTimedOut(n) ==
    /\ n <= bridge.connects
    /\ bridge.procs[n] \in {"awaitConn", "awaitReady"}
    /\ bridge' = [bridge EXCEPT !.procs[n] = "failed"]
    /\ UNCHANGED managerVars

\* initReader(opts): the options are stored, then enqueueOrRun
initReader ==
    /\ Len(bridge.issued) < MaxBridgeCalls
    /\ LET k == Len(bridge.issued) + 1
       IN  bridge' = enqueueOrRun([bridge EXCEPT !.readerOpts = k],
                                  [method |-> "initReader", arg |-> k])
    /\ UNCHANGED managerVars

setColorScheme ==
    /\ Len(bridge.issued) < MaxBridgeCalls
    /\ bridge' = enqueueOrRun(bridge, [method |-> "setColorScheme",
                                       arg |-> Len(bridge.issued) + 1])
    /\ UNCHANGED managerVars

navigate ==
    /\ Len(bridge.issued) < MaxBridgeCalls
    /\ bridge' = enqueueOrRun(bridge, [method |-> "navigate",
                                       arg |-> Len(bridge.issued) + 1])
    /\ UNCHANGED managerVars

BridgeNext ==
    \/ connect
    \/ dispose
    \/ reconnect
    \/ IframeReloaded
    \/ ReloadTimerFired
    \/ initReader
    \/ setColorScheme
    \/ navigate
    \/ \E n \in 1..MaxConnects : ChildConnected(n)
    \/ \E n \in 1..MaxConnects : ChildShakehand(n)
    \/ \E n \in 1..MaxConnects : ChildRegister(n)
    \/ \E n \in 1..MaxConnects : DrainStep(n)
    \/ \E n \in 1..MaxConnects : ConnectReady(n)
    \/ \E n \in 1..MaxConnects : ConnectTimedOut(n)

BridgeSpec == BridgeInit /\ [][BridgeNext]_vars

\* the entries of childCalls that carry the argument of the k-th call
EntriesOf(k) ==
    {e \in 1..Len(bridge.childCalls) : bridge.childCalls[e].arg = k}

\* C28: a call rejected never reaches the child; a call queued while
\* connecting is executed on the child at most once; and the calls queued
\* are executed in the order in which they were queued.
C28_QueuedOnceInOrderRejectedNever ==
    \A k \in 1..Len(bridge.issued) :
        /\ bridge.issued[k].outcome = "rejected" => EntriesOf(k) = {}
        /\ bridge.issued[k].outcome = "queued"
               => /\ Cardinality(EntriesOf(k)) <= 1
                  /\ \A j \in 1..(k - 1) :
                         (bridge.issued[j].outcome = "queued" /\ EntriesOf(k) # {})
                             => \E e \in EntriesOf(j) :
                                    \A f \in EntriesOf(k) : e < f

InitEntries(k, n) ==
    {e \in 1..Len(bridge.childCalls) :
        /\ bridge.childCalls[e].method = "initReader"
        /\ bridge.childCalls[e].arg = k
        /\ bridge.childCalls[e].child = n}

\* C30: the options of an initReader call that was accepted are passed to
\* initReader of the child of one connection at most once.
C30_OneInitPerConnection ==
    \A k \in 1..Len(bridge.issued), n \in 1..MaxConnects :
        (bridge.issued[k].method = "initReader"
            /\ bridge.issued[k].outcome # "rejected")
            => Cardinality(InitEntries(k, n)) <= 1

====
